---- MODULE Spec2Model ----
(***************************************************************************)
(* State-machine model of webrtc::Subtractor (AEC3 echo subtractor) and    *)
(* its nested FilterMisadjustmentEstimator.                                *)
(*                                                                         *)
(* Numeric abstraction.  Every audio block is a block of kBlockSize equal  *)
(* samples and is represented by that sample value (an integer amplitude   *)
(* on the 16-bit PCM scale).  A spectrum is represented by one bin.        *)
(* Energies (sums of squares over a block) are kept in units of            *)
(* AmpUnit^2 * kBlockSize, rounded down.  The smoothed inverse             *)
(* misadjustment is a fixed-point number with InvQ steps per unit and the  *)
(* correction factor a fixed-point number with ScaleQ steps per unit.      *)
(***************************************************************************)
EXTENDS Integers, Sequences, FiniteSets, TLC

----------------------------------------------------------------------------
(* Program constants *)

kFftLengthBy2 == 64
kBlockSize == kFftLengthBy2
n_blocks_ == 4
kPoorShadowLimit == 5
kClampMin == -32768
kClampMax == 32767
kOverhangHold == 4
kNoiseFloorAmp == 200
kDivergenceAmp == 7500
kSmoothingDen == 10

(* Fixed-point resolutions of the numeric abstraction *)
AmpUnit == 100
InvQ == 100
ScaleQ == 1000

(* Bounds of the model *)
MaxCoeff == 400
MaxCalls == 6
MaxCallsShort == 5
MaxUpdates == 24
MaxChannels == 2
MaxCallsTwoChannels == 4
MaxInputSize == 24

----------------------------------------------------------------------------
(* Arithmetic helpers *)

Abs(x) == IF x < 0 THEN -x ELSE x

Sgn(x) == IF x < 0 THEN -1 ELSE IF x > 0 THEN 1 ELSE 0

Max(a, b) == IF a > b THEN a ELSE b

Min(a, b) == IF a < b THEN a ELSE b

\* Division rounding toward zero, as a float quotient quantised to the grid.
DivT(a, b) == Sgn(a) * Sgn(b) * (Abs(a) \div Abs(b))

\* floor(x^2 / AmpUnit^2): the energy of a block of kBlockSize samples of
\* value x, in energy units (computed without exceeding 32 bits).
SqUnits(x) ==
    LET a == Abs(x)
        q == a \div AmpUnit
        r == a % AmpUnit
    IN  q * q + ((2 * AmpUnit * q * r + r * r) \div (AmpUnit * AmpUnit))

RECURSIVE ISqrtIn(_, _, _)
ISqrtIn(x, lo, hi) ==
    IF lo >= hi THEN lo
    ELSE LET mid == (lo + hi + 1) \div 2
         IN  IF mid * mid <= x THEN ISqrtIn(x, mid, hi)
             ELSE ISqrtIn(x, lo, mid - 1)

\* Integer square root (largest r with r*r <= x).
ISqrt(x) == ISqrtIn(x, 0, Min(x, 46340))

RECURSIVE SumSeq(_)
SumSeq(s) == IF s = << >> THEN 0 ELSE Head(s) + SumSeq(Tail(s))

\* a clamp that forgets the lower limit
SafeClampUpperOnly(a) == Min(a, kClampMax)

\* SafeClamp(a, -32768.f, 32767.f)
SafeClamp(a) == Max(kClampMin, Min(a, kClampMax))

----------------------------------------------------------------------------
(* media/engine/simulcast.cc: simulcast formats and layer sizes *)

VARIABLES
    simulcast_args,    \* the arguments of the simulcast call
    simulcast_result   \* what the call has returned, once it is made

simulcast_vars == << simulcast_args, simulcast_result >>

\* INT_MAX of a 32-bit int
Int32Max == 32767 * 65536 + 65535

\* An unsigned 32-bit value as two 16-bit halves.
U32(hi, lo) == [hi |-> hi, lo |-> lo]

AddU32(a, b) ==
    LET lo == a.lo + b.lo
    IN  U32((a.hi + b.hi + lo \div 65536) % 65536, lo % 65536)

\* a * b modulo 2^32, by doubling
RECURSIVE MulU32(_, _)
MulU32(a, b) ==
    IF b = 0 THEN U32(0, 0)
    ELSE LET rest == MulU32(AddU32(a, a), b \div 2)
         IN  IF b % 2 = 1 THEN AddU32(rest, a) ELSE rest

\* The two's complement reading of an unsigned 32-bit value.
ToInt32(a) ==
    IF a.hi >= 32768 THEN (a.hi - 65536) * 65536 + a.lo
    ELSE a.hi * 65536 + a.lo

MulOverflows(a, b) == a > 0 /\ b > Int32Max \div a

\* a * b on non-negative ints: the product, or on signed overflow (undefined
\* behaviour) the wrapped product or a trap.
IntMul(a, b) ==
    IF MulOverflows(a, b)
    THEN {[trap |-> FALSE,
           value |-> ToInt32(MulU32(U32(a \div 65536, a % 65536), b))],
          [trap |-> TRUE, value |-> 0]}
    ELSE {[trap |-> FALSE, value |-> a * b]}

\* const SimulcastFormat kSimulcastFormats[]
kSimulcastFormats ==
    [i \in 0 .. 6 |->
        << [width |-> 1920, height |-> 1080, max_layers |-> 3,
            max_bitrate_kbps |-> 5000, target_bitrate_kbps |-> 4000,
            min_bitrate_kbps |-> 800],
           [width |-> 1280, height |-> 720, max_layers |-> 3,
            max_bitrate_kbps |-> 2500, target_bitrate_kbps |-> 2500,
            min_bitrate_kbps |-> 600],
           [width |-> 960, height |-> 540, max_layers |-> 3,
            max_bitrate_kbps |-> 1200, target_bitrate_kbps |-> 1200,
            min_bitrate_kbps |-> 350],
           [width |-> 640, height |-> 360, max_layers |-> 2,
            max_bitrate_kbps |-> 700, target_bitrate_kbps |-> 500,
            min_bitrate_kbps |-> 150],
           [width |-> 480, height |-> 270, max_layers |-> 2,
            max_bitrate_kbps |-> 450, target_bitrate_kbps |-> 350,
            min_bitrate_kbps |-> 150],
           [width |-> 320, height |-> 180, max_layers |-> 1,
            max_bitrate_kbps |-> 200, target_bitrate_kbps |-> 150,
            min_bitrate_kbps |-> 30],
           [width |-> 0, height |-> 0, max_layers |-> 1,
            max_bitrate_kbps |-> 200, target_bitrate_kbps |-> 150,
            min_bitrate_kbps |-> 30] >>[i + 1]]

\* arraysize(kSimulcastFormats)
NumSimulcastFormats == Cardinality(DOMAIN kSimulcastFormats)

\* kSimulcastFormats[i].width * kSimulcastFormats[i].height
FormatPixels(i) == kSimulcastFormats[i].width * kSimulcastFormats[i].height

\* for (uint32_t i = 0; i < arraysize(kSimulcastFormats); ++i): the first i
\* with width * height >= the format's pixels; -1 when the loop ends
RECURSIVE FirstFormat(_, _)
FirstFormat(pixels, i) ==
    IF ~(i < NumSimulcastFormats) THEN -1
    ELSE IF pixels >= FormatPixels(i) THEN i
    ELSE FirstFormat(pixels, i + 1)

\* How a simulcast call ends: it returns, a check fails, the multiplication
\* traps, or the statement after the loop is reached.
FormatIndex(status, index) == [status |-> status, index |-> index]

\* FindSimulcastFormatIndex(width, height): what the call can end with
FindSimulcastFormatIndex(width, height) ==
    IF ~(width >= 0) \/ ~(height >= 0) THEN {FormatIndex("FatalError", -1)}
    ELSE {IF pixels.trap THEN FormatIndex("trap", -1)
          ELSE LET i == FirstFormat(pixels.value, 0)
               IN  IF i = -1 THEN FormatIndex("RTC_NOTREACHED", -1)
                   ELSE FormatIndex("returned", i) :
             pixels \in IntMul(width, height)}

\* *optional, for an absl::optional held as a set of at most one value
Value(optional) == CHOOSE v \in optional : TRUE

\* x >> n and x << n on a non-negative int
ShiftRight(x, n) == x \div (2 ^ n)

ShiftLeft(x, n) == x * (2 ^ n)

\* a size rounded to a multiple of 2 ^ simulcast_layers
NormalizeSimulcastSizeByLayers(size, simulcast_layers, experimental_base2_exponent) ==
    LET base2_exponent == simulcast_layers
    IN  ShiftLeft(ShiftRight(size, base2_exponent), base2_exponent)

\* NormalizeSimulcastSize(size, simulcast_layers), given what
\* NormalizeSimulcastSizeExperiment::GetBase2Exponent() returns
NormalizeSimulcastSize(size, simulcast_layers, experimental_base2_exponent) ==
    LET base2_exponent ==
            IF experimental_base2_exponent # {}
               /\ size > ShiftLeft(1, Value(experimental_base2_exponent))
            THEN Value(experimental_base2_exponent)
            ELSE simulcast_layers - 1
    IN  ShiftLeft(ShiftRight(size, base2_exponent), base2_exponent)

\* webrtc::kMaxSimulcastStreams
kMaxSimulcastStreams == 3

\* x / 2 on an int: the quotient truncated towards zero
HalfOf(x) == IF x >= 0 THEN x \div 2 ELSE -((-x) \div 2)

\* How a call that yields layers ends: the layers it returns, or the status
\* it stopped with.
Layers(status, layers) == [status |-> status, layers |-> layers]

\* One VideoStream: its size and the kSimulcastFormats entry its bitrates are
\* interpolated down to (-1: read outside the table).
VideoStream(width, height, format) ==
    [width |-> width, height |-> height, format |-> format]

\* One iteration of the loop of GetNormalSimulcastLayers, for layer s: the
\* checks of DefaultNumberOfTemporalLayers(s, false) and the format found by
\* FindSimulcast{Max,Target,Min}BitrateBps(width, height).
SimulcastLayer(s, width, height, temporal_layers_supported) ==
    LET checked == s >= 0 /\ s < kMaxSimulcastStreams
        Stream(format) ==
            IF checked
            THEN Layers("returned", VideoStream(width, height, format))
            ELSE Layers("FatalError", << >>)
    IN  IF temporal_layers_supported /\ ~checked
        THEN {Layers("FatalError", << >>)}
        ELSE UNION {
               CASE f.status = "returned" -> {Stream(f.index)}
                 [] f.status = "RTC_NOTREACHED" ->
                        {Layers("FatalError", << >>), Stream(-1)}
                 [] OTHER -> {Layers(f.status, << >>)} :
               f \in FindSimulcastFormatIndex(width, height)}

\* for (size_t s = layer_count - 1;; --s): layers s, s - 1, ..., 0, each of
\* half the width and height of the one above
RECURSIVE LayersFrom(_, _, _, _)
LayersFrom(s, width, height, temporal_layers_supported) ==
    LET here == SimulcastLayer(s, width, height, temporal_layers_supported)
        below == IF s = 0 THEN {Layers("returned", << >>)}
                 ELSE LayersFrom(s - 1, HalfOf(width), HalfOf(height),
                                 temporal_layers_supported)
    IN  {IF l.status # "returned" THEN l
         ELSE IF b.status # "returned" THEN b
         ELSE Layers("returned",
                     [i \in 0 .. s |-> IF i = s THEN l.layers ELSE b.layers[i]]) :
            l \in here, b \in below}

\* GetNormalSimulcastLayers(layer_count, width, height, ...): what the call
\* can end with
GetNormalSimulcastLayers(layer_count, width, height, temporal_layers_supported, experimental_base2_exponent) ==
    IF layer_count = 0
    THEN \* a shift by -1, then layers[SIZE_MAX] written in an empty vector
         {Layers("trap", << >>), Layers("crash", << >>)}
    ELSE
    LayersFrom(layer_count - 1,
               NormalizeSimulcastSize(width, layer_count,
                                      experimental_base2_exponent),
               NormalizeSimulcastSize(height, layer_count,
                                      experimental_base2_exponent),
               temporal_layers_supported)

\* floor(a * b / d), and whether the division leaves no remainder, for
\* 0 <= a <= 5000 and 0 <= b <= d < 2^21, without a product above INT_MAX
MulDiv(a, b, d) ==
    LET x == a * (b \div 1024)
        rest == (x % d) * 1024 + a * (b % 1024)
    IN  [quotient |-> (x \div d) * 1024 + rest \div d,
         exact |-> rest % d = 0]

\* up * (1.0 - rate) + down * rate converted to int, for up >= down and
\* rate = pixels_below_up / pixels_between (the value the float expression
\* approximates, truncated)
Interpolate(up, down, pixels_below_up, pixels_between) ==
    LET part == MulDiv(up - down, pixels_below_up, pixels_between)
    IN  up - part.quotient - (IF part.exact THEN 0 ELSE 1)

\* InterpolateSimulcastFormat(width, height), for the index that
\* FindSimulcastFormatIndex returned
InterpolateSimulcastFormat(width, height, index) ==
    IF index = 0 THEN kSimulcastFormats[index]
    ELSE LET up == kSimulcastFormats[index - 1]
             total_pixels == width * height
             down == kSimulcastFormats[index]
             total_pixels_up == FormatPixels(index - 1)
             total_pixels_down == FormatPixels(index)
             Rated(above, below) ==
                 Interpolate(above, below, total_pixels_up - total_pixels,
                             total_pixels_up - total_pixels_down)
         IN  [width |-> width, height |-> height,
              max_layers |-> down.max_layers,
              max_bitrate_kbps |->
                  Rated(up.max_bitrate_kbps, down.max_bitrate_kbps),
              target_bitrate_kbps |->
                  Rated(up.target_bitrate_kbps, down.target_bitrate_kbps),
              min_bitrate_kbps |->
                  Rated(up.min_bitrate_kbps, down.min_bitrate_kbps)]

\* What an int read outside kSimulcastFormats, or computed from an
\* overflowed product, can hold.
IndeterminateInts == {-Int32Max, 0, Int32Max}

\* How a call that yields an int ends.
IntResult(status, value) == [status |-> status, value |-> value]

\* FindSimulcastMaxBitrateBps(width, height): what the call can end with.
\* After an overflowed width * height, and after an index of -1, which makes
\* InterpolateSimulcastFormat read kSimulcastFormats[-2] and [-1], the
\* bitrate is indeterminate.
FindSimulcastMaxBitrateBps(width, height) ==
    UNION {
      CASE f.status = "returned" /\ ~MulOverflows(width, height) ->
               {IntResult("returned",
                    InterpolateSimulcastFormat(width, height, f.index)
                        .max_bitrate_kbps * 1000)}
        [] f.status = "returned" ->
               {IntResult("returned", v) : v \in IndeterminateInts}
        [] f.status = "RTC_NOTREACHED" ->
               {IntResult("FatalError", 0)}
               \cup {IntResult("returned", v) : v \in IndeterminateInts}
        [] OTHER -> {IntResult(f.status, 0)} :
      f \in FindSimulcastFormatIndex(width, height)}

\* The field trials and experiments read by the simulcast functions: the
\* number given by WebRTC-VP8ScreenshareTemporalLayers, whether
\* WebRTC-UseBaseHeavyVP8TL3RateAllocation is enabled, whether
\* WebRTC-LegacySimulcastLayerLimit is disabled, and the bitrates of
\* ExperimentalScreenshareSettings (each optional a set of at most one value).
FieldTrials(screenshare_temporal_layers, base_heavy, legacy_limit_disabled, base_layer_max_bitrate, top_layer_max_bitrate) ==
    [screenshare_temporal_layers |-> screenshare_temporal_layers,
     base_heavy |-> base_heavy,
     legacy_limit_disabled |-> legacy_limit_disabled,
     base_layer_max_bitrate |-> base_layer_max_bitrate,
     top_layer_max_bitrate |-> top_layer_max_bitrate]

NoFieldTrials == FieldTrials({}, FALSE, FALSE, {}, {})

\* webrtc::kMaxTemporalStreams
kMaxTemporalStreams == 4

\* DefaultNumberOfTemporalLayers(simulcast_id, true), for a simulcast_id that
\* passes the two checks
DefaultNumberOfTemporalLayers(simulcast_id, field_trials) ==
    LET kDefaultNumScreenshareTemporalLayers == 2
        group_name == field_trials.screenshare_temporal_layers
    IN  IF group_name = {} THEN kDefaultNumScreenshareTemporalLayers
        ELSE IF Value(group_name) > 0
                /\ Value(group_name) <= kMaxTemporalStreams
        THEN Value(group_name)
        ELSE kDefaultNumScreenshareTemporalLayers

\* webrtc::SimulcastRateAllocator::GetTemporalRateAllocation(num_layers, 0),
\* in thousandths: the share of a stream's bitrate given to its base
\* temporal layer
GetTemporalRateAllocation(num_layers, field_trials) ==
    IF num_layers = 3 /\ field_trials.base_heavy THEN 600
    ELSE << 1000, 600, 400, 250 >>[num_layers]

kScreenshareDefaultTl0BitrateKbps == 200
kScreenshareDefaultTl1BitrateKbps == 1000
kScreenshareHighStreamMinBitrateBps == 600000
kScreenshareHighStreamMaxBitrateBps == 1250000
kMaxScreenshareSimulcastLayers == 2
kMinVideoBitrateBps == 30000
kDefaultVideoMaxFramerate == 60

\* a cap by the resolution alone
ResolutionLimitedBitrateUnfloored(resolution_max_bitrate_bps, min_bitrate_bps) ==
    resolution_max_bitrate_bps

\* std::max(FindSimulcastMaxBitrateBps(width, height),
\*          layers[1].min_bitrate_bps)
ResolutionLimitedBitrate(resolution_max_bitrate_bps, min_bitrate_bps) ==
    Max(resolution_max_bitrate_bps, min_bitrate_bps)

\* the upper screenshare layer, given what FindSimulcastMaxBitrateBps returned
UpperScreenshareLayer(width, height, max_qp, temporal_layers_supported, field_trials, target_bitrate_bps_0, resolution_max_bitrate_bps) ==
    LET num_temporal_layers == DefaultNumberOfTemporalLayers(1, field_trials)
        boosted == temporal_layers_supported
                   /\ (num_temporal_layers # 3 \/ field_trials.base_heavy)
        max_bitrate_bps ==
            IF ~temporal_layers_supported
            THEN (kScreenshareHighStreamMaxBitrateBps \div 1000)
                 * GetTemporalRateAllocation(num_temporal_layers, field_trials)
            ELSE IF boosted
            THEN IF field_trials.top_layer_max_bitrate # {}
                 THEN Value(field_trials.top_layer_max_bitrate)
                 ELSE kScreenshareHighStreamMaxBitrateBps
            ELSE 2 * ((target_bitrate_bps_0 * 10) \div 4)
        min_bitrate_bps == IF boosted THEN kScreenshareHighStreamMinBitrateBps
                           ELSE target_bitrate_bps_0 * 2
        \* Cap max bitrate so it isn't overly high for the given resolution.
        resolution_limited_bitrate ==
            ResolutionLimitedBitrate(resolution_max_bitrate_bps,
                                     min_bitrate_bps)
        capped == Min(max_bitrate_bps, resolution_limited_bitrate)
    IN  [width |-> width, height |-> height, max_qp |-> max_qp,
         max_framerate |-> kDefaultVideoMaxFramerate,
         num_temporal_layers |->
             IF temporal_layers_supported THEN num_temporal_layers ELSE 0,
         min_bitrate_bps |-> min_bitrate_bps,
         target_bitrate_bps |-> capped,
         max_bitrate_bps |-> capped,
         bitrate_priority |-> {}]

\* GetScreenshareLayers(max_layers, width, height, bitrate_priority, max_qp,
\* temporal_layers_supported): what the call can end with. With no layer,
\* layers[0] is written outside the vector: the call crashes, or goes on
\* with memory outside the vector overwritten and returns the empty vector.
GetScreenshareLayers(max_layers, width, height, bitrate_priority, max_qp, temporal_layers_supported, field_trials) ==
    LET num_simulcast_layers == Min(max_layers, kMaxScreenshareSimulcastLayers)
        two == num_simulcast_layers = kMaxScreenshareSimulcastLayers
        layer0 ==
            [width |-> width, height |-> height, max_qp |-> max_qp,
             max_framerate |-> 5,
             num_temporal_layers |->
                 IF temporal_layers_supported THEN 2 ELSE 0,
             min_bitrate_bps |-> kMinVideoBitrateBps,
             target_bitrate_bps |-> kScreenshareDefaultTl0BitrateKbps * 1000,
             max_bitrate_bps |->
                 IF two /\ temporal_layers_supported
                    /\ field_trials.base_layer_max_bitrate # {}
                 THEN Value(field_trials.base_layer_max_bitrate)
                 ELSE kScreenshareDefaultTl1BitrateKbps * 1000,
             bitrate_priority |-> {bitrate_priority}]
    IN  IF num_simulcast_layers = 0
        THEN {Layers("crash", << >>), Layers("corrupted", << >>)}
        ELSE IF ~two
        THEN {Layers("returned", [i \in {0} |-> layer0])}
        ELSE {IF limit.status # "returned" THEN Layers(limit.status, << >>)
              ELSE Layers("returned",
                       [i \in 0 .. 1 |->
                           IF i = 0 THEN layer0
                           ELSE UpperScreenshareLayer(
                                    width, height, max_qp,
                                    temporal_layers_supported, field_trials,
                                    layer0.target_bitrate_bps, limit.value)]) :
                 limit \in FindSimulcastMaxBitrateBps(width, height)}

\* a layer count of kSimulcastFormats read outside the table
IndeterminateLayerCounts == {0, kMaxSimulcastStreams}

\* LimitSimulcastLayerCount(width, height, layer_count): what the call can
\* end with
LimitSimulcastLayerCount(width, height, layer_count, field_trials) ==
    IF field_trials.legacy_limit_disabled
    THEN {IntResult("returned", layer_count)}
    ELSE UNION {
           CASE f.status = "returned" ->
                    {IntResult("returned",
                         Min(layer_count, kSimulcastFormats[f.index].max_layers))}
             [] f.status = "RTC_NOTREACHED" ->
                    {IntResult("FatalError", 0)}
                    \cup {IntResult("returned", Min(layer_count, n)) :
                              n \in IndeterminateLayerCounts}
             [] OTHER -> {IntResult(f.status, 0)} :
           f \in FindSimulcastFormatIndex(width, height)}

\* RTC_DCHECK(max_layers > 1 || is_screenshare_with_conference_mode)
GetSimulcastConfigChecks(max_layers, is_screenshare_with_conference_mode) ==
    max_layers > 1 \/ is_screenshare_with_conference_mode

\* GetSimulcastConfig(max_layers, width, height, bitrate_priority, max_qp,
\* is_screenshare_with_conference_mode, temporal_layers_supported): what the
\* call can end with
GetSimulcastConfig(max_layers, width, height, bitrate_priority, max_qp, is_screenshare_with_conference_mode, temporal_layers_supported, field_trials, experimental_base2_exponent) ==
    IF ~GetSimulcastConfigChecks(max_layers,
                                 is_screenshare_with_conference_mode)
    THEN {Layers("FatalError", << >>)}
    ELSE UNION {
           IF limited.status # "returned"
           THEN {Layers(limited.status, << >>)}
           ELSE IF is_screenshare_with_conference_mode
           THEN GetScreenshareLayers(limited.value, width, height,
                                     bitrate_priority, max_qp,
                                     temporal_layers_supported, field_trials)
           ELSE GetNormalSimulcastLayers(limited.value, width, height,
                                         temporal_layers_supported,
                                         experimental_base2_exponent) :
           limited \in LimitSimulcastLayerCount(width, height, max_layers,
                                                field_trials)}

\* layers.size(), for layers held as a function on 0 .. size - 1
Size(layers) == Cardinality(DOMAIN layers)

\* for (size_t s = 0; s < layers.size() - 1; ++s)
\*   total_max_bitrate_bps += layers[s].max_bitrate_bps, from s on
RECURSIVE TotalOfMax(_, _)
TotalOfMax(layers, s) ==
    IF ~(s < Size(layers) - 1) THEN 0
    ELSE layers[s].max_bitrate_bps + TotalOfMax(layers, s + 1)

\* the sum of the max_bitrate_bps of all layers
GetTotalMaxBitrateBpsOfMax(layers) ==
    IF Size(layers) = 0 THEN 0
    ELSE TotalOfMax(layers, 0) + layers[Size(layers) - 1].max_bitrate_bps

\* for (size_t s = 0; s < layers.size() - 1; ++s)
\*   total_max_bitrate_bps += layers[s].target_bitrate_bps, from s on
RECURSIVE TotalOfTargets(_, _)
TotalOfTargets(layers, s) ==
    IF ~(s < Size(layers) - 1) THEN 0
    ELSE layers[s].target_bitrate_bps + TotalOfTargets(layers, s + 1)

GetTotalMaxBitrateBps(layers) ==
    IF Size(layers) = 0 THEN 0
    ELSE TotalOfTargets(layers, 0) + layers[Size(layers) - 1].max_bitrate_bps

\* BoostMaxSimulcastLayer(max_bitrate_bps, &layers): the layers after the call
BoostMaxSimulcastLayer(max_bitrate_bps, layers) ==
    IF Size(layers) = 0 THEN layers
    ELSE \* Spend additional bits to boost the max layer.
         LET bitrate_left_bps == max_bitrate_bps - GetTotalMaxBitrateBps(layers)
             back == Size(layers) - 1
         IN  IF bitrate_left_bps > 0
             THEN [layers EXCEPT ![back].max_bitrate_bps = @ + bitrate_left_bps]
             ELSE layers

\* The arguments of a simulcast call.
SimulcastArgs(layer_count, width, height, temporal_layers_supported, experimental_base2_exponent) ==
    [layer_count |-> layer_count, width |-> width, height |-> height,
     temporal_layers_supported |-> temporal_layers_supported,
     experimental_base2_exponent |-> experimental_base2_exponent]

\* No simulcast call is made.
NoSimulcastCall ==
    /\ simulcast_args = SimulcastArgs(1, 0, 0, FALSE, {})
    /\ simulcast_result = [op |-> "none"]

----------------------------------------------------------------------------
(* test/fuzzers/rtp_frame_reference_finder_fuzzer.cc: DataReader and
   FuzzOneInput *)

VARIABLES
    reader,   \* the DataReader: size_ and offset_
    fuzz      \* the caller of the reader: its position, the size given to
              \* FuzzOneInput, whether the map packets is empty, and the end
              \* of the farthest source range a memcpy of the last step read

fuzzer_vars == << reader, fuzz >>

\* DataReader(data, size)
DataReader(size) == [size_ |-> size, offset_ |-> 0]

\* What a DataReader call leaves: the reader and the end of the range
\* data_[offset_ .. read_end) that its memcpy read (0 without a memcpy).
Read(r, read_end) == [reader |-> r, read_end |-> read_end]

\* size_ - offset_ on size_t: below zero it wraps to a value above any size
\* asked for
Remaining(r, size) ==
    IF r.size_ >= r.offset_ THEN r.size_ - r.offset_ ELSE size

\* DataReader::CopyTo(destination, size)
CopyTo(r, size) ==
    LET num_bytes == Min(Remaining(r, size), size)
    IN  Read([r EXCEPT !.offset_ = @ + num_bytes], r.offset_ + num_bytes)

\* a GetNum that leaves offset_ alone when too few bytes are left
GetNumKeepsOffset(r, sizeof_res) ==
    IF r.offset_ + sizeof_res < r.size_
    THEN Read([r EXCEPT !.offset_ = @ + sizeof_res], r.offset_ + sizeof_res)
    ELSE Read(r, 0)

\* DataReader::GetNum<T>(), for sizeof(T) = sizeof_res
GetNum(r, sizeof_res) ==
    IF r.offset_ + sizeof_res < r.size_
    THEN Read([r EXCEPT !.offset_ = @ + sizeof_res], r.offset_ + sizeof_res)
    ELSE Read([r EXCEPT !.offset_ = r.size_], 0)

MoreToRead(r) == r.offset_ < r.size_

\* sizeof(packet), the size of a pointer
SizeofPacket == 8

\* FuzzyPacketBuffer::GetPacket(seq_num): a packet found in the map is
\* returned; a new one is filled by reader->CopyTo(packet, sizeof(packet))
GetPacket(r, found) ==
    IF found THEN Read(r, 0) ELSE CopyTo(r, SizeofPacket)

\* The caller of a reader.
Fuzz(pc, size, packets_empty, read_end) ==
    [pc |-> pc, size |-> size, packets_empty |-> packets_empty,
     read_end |-> read_end]

\* No fuzzer input is given.
NoFuzzerRun ==
    /\ reader = DataReader(0)
    /\ fuzz = Fuzz("idle", 0, TRUE, 0)

----------------------------------------------------------------------------
(* Construction parameters kept by the Subtractor *)

VARIABLES
    config_,                 \* the EchoCanceller3Config (its filter section)
    num_capture_channels_,   \* the number of capture channels
    data_dumper_             \* the ApmDataDumper pointer

Channels == 0 .. (num_capture_channels_ - 1)

\* A configuration whose shadow filter starts shorter than the main filter
\* and converges to its length.
DefaultConfig ==
    [main_initial_length_blocks |-> 2, main_length_blocks |-> 2,
     shadow_initial_length_blocks |-> 1, shadow_length_blocks |-> 2,
     config_change_duration_blocks |-> 2]

\* A configuration whose main filter starts shorter than the shadow filter
\* and converges to a greater length.
LongMainConfig ==
    [main_initial_length_blocks |-> 1, main_length_blocks |-> 3,
     shadow_initial_length_blocks |-> 2, shadow_length_blocks |-> 2,
     config_change_duration_blocks |-> 2]

\* The pointers a caller can construct the Subtractor with.
DataDumpers == {"nullptr", "dumper"}

main_initial_length_blocks == config_.main_initial_length_blocks

main_length_blocks == config_.main_length_blocks

shadow_initial_length_blocks == config_.shadow_initial_length_blocks

shadow_length_blocks == config_.shadow_length_blocks

config_change_duration_blocks == config_.config_change_duration_blocks

MaxPartitions == Max(Max(main_initial_length_blocks, main_length_blocks),
                     Max(shadow_initial_length_blocks, shadow_length_blocks))

Partitions == 1 .. MaxPartitions

\* A sequence given element by element, evaluated once.
AsSeq(f) == f \o << >>

Zeros(n) == AsSeq([p \in 1 .. n |-> 0])

----------------------------------------------------------------------------
(* Inputs of one Process call *)

\* Sample value of a capture block (silent, audible).
CaptureVals == {0, 300}

\* Render spectrum of the latest block (silent or unit excitation), of the
\* block before it (silent, unit or strong excitation) and of the earlier
\* blocks (silent or unit excitation).
RenderVals(p) == IF p = 2 THEN {0, 1, 200} ELSE {0, 1}

\* Render histories of n blocks: a strong block is followed by a silent
\* one, and a block older than the two latest is excited alone.
RenderHistories(n) ==
    {X \in [1 .. n -> {0, 1, 200}] :
        /\ \A p \in 1 .. n : X[p] \in RenderVals(p)
        /\ \A p \in 1 .. n : X[p] = 200 => X[1] = 0
        /\ \A p \in 3 .. n : X[p] # 0 => \A q \in 1 .. n : q # p => X[q] = 0}

\* The longest filter a configuration of the model has.
MaxLengthBlocks == 3

MaxLayerCount == 4

RenderHistoriesByLength ==
    [n \in 1 .. MaxLengthBlocks |-> RenderHistories(n)]

RenderBuffers == RenderHistoriesByLength[MaxPartitions]

\* Energies of one block given to the estimator when it is driven alone
\* (in energy units: a residual of about 7700 or 24500, a capture of 200 or
\* 1000).
ResidualEnergies == {0, 6000, 60000}

CaptureEnergies == {4, 100}

\* The lengths of the blocks of a capture vector: one block of kBlockSize
\* samples per capture channel.
WellFormedSizes(num_capture_channels) ==
    AsSeq([i \in 1 .. num_capture_channels |-> kBlockSize])

\* A block too few, a block too many, or a last block a sample short.
MalformedSizes(num_capture_channels) ==
    {AsSeq([i \in 1 .. n |-> kBlockSize]) :
        n \in {num_capture_channels - 1, num_capture_channels + 1}}
    \cup {AsSeq([i \in 1 .. num_capture_channels |->
                    IF i = num_capture_channels THEN kBlockSize - 1
                    ELSE kBlockSize])}

\* The arguments of a Process call, by length of the render history and
\* number of capture channels: any render history with any capture blocks of
\* the right number and length, or a silent block with a capture vector of a
\* wrong number or length.
ProcessInputsByLength ==
    [n \in 1 .. MaxLengthBlocks |->
        [c \in 1 .. MaxChannels |->
            {[X |-> X, capture |-> capture,
              capture_sizes |-> WellFormedSizes(c)] :
                X \in RenderHistoriesByLength[n],
                capture \in [0 .. c - 1 -> CaptureVals]}
            \cup {[X |-> [p \in 1 .. n |-> 0],
                   capture |-> [ch \in 0 .. c - 1 |-> 0],
                   capture_sizes |-> sizes] : sizes \in MalformedSizes(c)}]]

ProcessInputs == ProcessInputsByLength[MaxPartitions][num_capture_channels_]

\* RenderBuffer::SpectralSum: render power summed over the n latest blocks.
SpectralSum(X, n) == SumSeq(AsSeq([p \in 1 .. n |-> X[p] * X[p]]))

----------------------------------------------------------------------------
(* AdaptiveFirFilter *)

NewFilter(max_size, initial_size) ==
    [H |-> Zeros(max_size),
     current_size_partitions_ |-> initial_size,
     target_size_partitions_ |-> initial_size,
     old_target_size_partitions_ |-> initial_size,
     size_change_counter_ |-> 0]

SizePartitions(f) == f.current_size_partitions_

\* Filter(): partitioned block convolution over the active partitions.
FilterOutput(f, X) ==
    SumSeq(AsSeq([p \in 1 .. f.current_size_partitions_ |-> f.H[p] * X[p]]))

\* Partitions outside the active size hold no coefficients.
ResetFilterBuffersToCurrentSize(f) ==
    [f EXCEPT !.H = AsSeq([p \in 1 .. Len(f.H) |->
                        IF p <= f.current_size_partitions_ THEN f.H[p] ELSE 0])]

SetSizePartitions(f, size, immediate_effect) ==
    LET target == Min(Len(f.H), size)
    IN  IF immediate_effect
        THEN ResetFilterBuffersToCurrentSize(
                 [f EXCEPT !.target_size_partitions_ = target,
                           !.old_target_size_partitions_ = target,
                           !.current_size_partitions_ = target])
        ELSE [f EXCEPT !.target_size_partitions_ = target,
                       !.size_change_counter_ = config_change_duration_blocks]

\* Gradual move of the active size from the old to the new target.
UpdateSize(f) ==
    IF f.size_change_counter_ > 0
    THEN LET c == f.size_change_counter_ - 1
             cur == (f.old_target_size_partitions_ * c
                     + f.target_size_partitions_
                       * (config_change_duration_blocks - c))
                    \div config_change_duration_blocks
         IN  ResetFilterBuffersToCurrentSize(
                 [f EXCEPT !.size_change_counter_ = c,
                           !.current_size_partitions_ = cur])
    ELSE ResetFilterBuffersToCurrentSize(
             [f EXCEPT !.current_size_partitions_ = f.target_size_partitions_,
                       !.old_target_size_partitions_ = f.target_size_partitions_])

\* Adapt(): H_p += conj(X_p) * G on every active partition.
Adapt(f, X, G) ==
    LET g == UpdateSize(f)
    IN  [g EXCEPT !.H = AsSeq([p \in 1 .. Len(g.H) |->
                            IF p <= g.current_size_partitions_
                            THEN g.H[p] + X[p] * G ELSE g.H[p]])]

\* A coefficient times a fixed-point factor, rounded toward zero.
ScaleVal(v, factor) == Sgn(v) * ((Abs(v) * factor) \div ScaleQ)

ScaleFilter(f, factor) ==
    [f EXCEPT !.H = AsSeq([p \in 1 .. Len(f.H) |-> ScaleVal(f.H[p], factor)])]

FilterHandleEchoPathChange(f) == [f EXCEPT !.H = Zeros(Len(f.H))]

GetFilter(f) == f.H

SetFilter(f, H) ==
    [f EXCEPT !.H = AsSeq([p \in 1 .. Len(f.H) |->
                              IF p <= Len(H) THEN H[p] ELSE 0])]

\* Time-domain impulse response refreshed by Adapt for the active partitions.
ImpulseResponse(f, h) ==
    AsSeq([p \in 1 .. Len(h) |->
              IF p <= f.current_size_partitions_ THEN f.H[p] ELSE h[p]])

\* a frequency response left as cached
ComputeFrequencyResponseStale(f, H2) == H2

\* ComputeFrequencyResponse(): squared magnitude per partition.
ComputeFrequencyResponse(f, H2) ==
    AsSeq([p \in 1 .. Len(H2) |->
              IF p <= Len(f.H) THEN SqUnits(f.H[p]) ELSE H2[p]])

\* ComputeErl(): sum of the partitions' squared magnitudes.
ComputeErl(H2) == SumSeq(H2)

----------------------------------------------------------------------------
(* MainFilterUpdateGain / ShadowFilterUpdateGain *)

NewGain == [config |-> "initial", immediate |-> TRUE, echo_path |-> "none"]

GainSetConfig(g, config, immediate_effect) ==
    [g EXCEPT !.config = config, !.immediate = immediate_effect]

\* MainFilterUpdateGain::HandleEchoPathChange(echo_path_variability)
MainGainHandleEchoPathChange(g, delay_change, gain_change) ==
    [g EXCEPT !.echo_path = IF delay_change THEN "delay"
                            ELSE IF gain_change THEN "gain" ELSE @]

\* ShadowFilterUpdateGain::HandleEchoPathChange()
ShadowGainHandleEchoPathChange(g) == [g EXCEPT !.echo_path = "delay"]

\* Normalised step toward zero error; no update for a saturated capture,
\* a poorly excited render or no render power.
MainGainCompute(X2, poor_excitation, E, erl, size_partitions, saturated) ==
    IF saturated \/ poor_excitation \/ X2 = 0 THEN 0 ELSE DivT(E, X2)

ShadowGainCompute(X2, poor_excitation, E, size_partitions, saturated) ==
    IF saturated \/ poor_excitation \/ X2 = 0 THEN 0 ELSE DivT(E, X2)

----------------------------------------------------------------------------
(* Subtractor::FilterMisadjustmentEstimator *)

\* n_blocks_ * 200.f * 200.f * kBlockSize: the energy of n_blocks_ blocks of
\* kBlockSize samples of value 200, in energy units
kNoiseFloor == n_blocks_ * SqUnits(kNoiseFloorAmp)

\* n_blocks_ * 7500.f * 7500.f * kBlockSize, in energy units
kDivergenceThreshold == n_blocks_ * SqUnits(kDivergenceAmp)

NewEstimator ==
    [e2_acum_ |-> 0, y2_acum_ |-> 0, n_blocks_acum_ |-> 0,
     inv_misadjustment_ |-> 0, overhang_ |-> 0]

\* an overhang armed for one window more
NextOverhangLongHold(est, e2) ==
    IF e2 > kDivergenceThreshold THEN kOverhangHold + 1
    ELSE Max(est.overhang_ - 1, 0)

\* an overhang that decays without the floor at zero
NextOverhangUnclamped(est, e2) ==
    IF e2 > kDivergenceThreshold THEN kOverhangHold
    ELSE est.overhang_ - 1

\* The overhang after a window above the noise floor.
NextOverhang(est, e2) ==
    IF e2 > kDivergenceThreshold THEN kOverhangHold
    ELSE Max(est.overhang_ - 1, 0)

\* inv_misadjustment_ += 0.1f * (update - inv_misadjustment_)
Smooth(inv, update) == inv + DivT(update - inv, kSmoothingDen)

\* an evaluation whose noise-floor test accepts any capture energy
EvaluateWindowNoFloor(est, e2, y2) ==
    IF y2 > 0
    THEN LET update == (e2 * InvQ) \div y2
             overhang == NextOverhang(est, e2)
         IN  [est EXCEPT
                !.overhang_ = overhang,
                !.inv_misadjustment_ =
                    IF update < est.inv_misadjustment_ \/ overhang > 0
                    THEN Smooth(est.inv_misadjustment_, update) ELSE @]
    ELSE est

\* an evaluation that tests the overhang of before the window
EvaluateWindowStaleOverhang(est, e2, y2) ==
    IF y2 > kNoiseFloor
    THEN LET update == (e2 * InvQ) \div y2
             overhang == NextOverhang(est, e2)
         IN  [est EXCEPT
                !.overhang_ = overhang,
                !.inv_misadjustment_ =
                    IF update < est.inv_misadjustment_ \/ est.overhang_ > 0
                    THEN Smooth(est.inv_misadjustment_, update) ELSE @]
    ELSE est

\* an evaluation that follows the ratio upwards instead of downwards
EvaluateWindowFollowsUp(est, e2, y2) ==
    IF y2 > kNoiseFloor
    THEN LET update == (e2 * InvQ) \div y2
             overhang == NextOverhang(est, e2)
         IN  [est EXCEPT
                !.overhang_ = overhang,
                !.inv_misadjustment_ =
                    IF update > est.inv_misadjustment_ \/ overhang > 0
                    THEN Smooth(est.inv_misadjustment_, update) ELSE @]
    ELSE est

\* The evaluation made by the Update that completes a window.
EvaluateWindow(est, e2, y2) ==
    IF y2 > kNoiseFloor
    THEN LET update == (e2 * InvQ) \div y2
             overhang == NextOverhang(est, e2)
         IN  [est EXCEPT
                !.overhang_ = overhang,
                !.inv_misadjustment_ =
                    IF update < est.inv_misadjustment_ \/ overhang > 0
                    THEN Smooth(est.inv_misadjustment_, update) ELSE @]
    ELSE est

\* an Update that takes the block's energies off the accumulators
EstimatorUpdateSubtracts(est, output) ==
    LET e2 == est.e2_acum_ - output.e2_main
        y2 == est.y2_acum_ - output.y2
        n == est.n_blocks_acum_ + 1
    IN  IF n = n_blocks_
        THEN [EvaluateWindow(est, e2, y2) EXCEPT
                !.e2_acum_ = 0, !.y2_acum_ = 0, !.n_blocks_acum_ = 0]
        ELSE [est EXCEPT !.e2_acum_ = e2, !.y2_acum_ = y2,
                         !.n_blocks_acum_ = n]

\* an Update that clears the accumulators only after a window above the
\* noise floor
EstimatorUpdateKeepsQuietWindow(est, output) ==
    LET e2 == est.e2_acum_ + output.e2_main
        y2 == est.y2_acum_ + output.y2
        n == est.n_blocks_acum_ + 1
    IN  IF n = n_blocks_ /\ y2 > kNoiseFloor
        THEN [EvaluateWindow(est, e2, y2) EXCEPT
                !.e2_acum_ = 0, !.y2_acum_ = 0, !.n_blocks_acum_ = 0]
        ELSE [est EXCEPT !.e2_acum_ = e2, !.y2_acum_ = y2,
                         !.n_blocks_acum_ = n]

\* an Update that tests the block count before incrementing it
EstimatorUpdatePostIncrement(est, output) ==
    LET e2 == est.e2_acum_ + output.e2_main
        y2 == est.y2_acum_ + output.y2
    IN  IF est.n_blocks_acum_ = n_blocks_
        THEN [EvaluateWindow(est, e2, y2) EXCEPT
                !.e2_acum_ = 0, !.y2_acum_ = 0, !.n_blocks_acum_ = 0]
        ELSE [est EXCEPT !.e2_acum_ = e2, !.y2_acum_ = y2,
                         !.n_blocks_acum_ = est.n_blocks_acum_ + 1]

EstimatorUpdate(est, output) ==
    LET e2 == est.e2_acum_ + output.e2_main
        y2 == est.y2_acum_ + output.y2
        n == est.n_blocks_acum_ + 1
    IN  IF n = n_blocks_
        THEN [EvaluateWindow(est, e2, y2) EXCEPT
                !.e2_acum_ = 0, !.y2_acum_ = 0, !.n_blocks_acum_ = 0]
        ELSE [est EXCEPT !.e2_acum_ = e2, !.y2_acum_ = y2,
                         !.n_blocks_acum_ = n]

\* a Reset that clears the accumulators only
EstimatorResetAccumulators(est) ==
    [est EXCEPT !.e2_acum_ = 0, !.y2_acum_ = 0, !.n_blocks_acum_ = 0]

EstimatorReset(est) ==
    [e2_acum_ |-> 0, y2_acum_ |-> 0, n_blocks_acum_ |-> 0,
     inv_misadjustment_ |-> 0, overhang_ |-> 0]

\* inv_misadjustment_ > 10.f
IsAdjustmentNeeded(est) == est.inv_misadjustment_ > 10 * InvQ

\* 2.f / sqrtf(inv_misadjustment_), in steps of 1/ScaleQ
GetMisadjustment(est) ==
    (2 * ScaleQ * ISqrt(InvQ)) \div ISqrt(est.inv_misadjustment_)

----------------------------------------------------------------------------
(* Helpers of Subtractor::Process *)

\* Aec3Fft::Ifft: unnormalised inverse transform of the one-bin spectrum.
Ifft(S) == S * kFftLengthBy2

\* Aec3Fft::ZeroPaddedFft and FftData::Spectrum on the one-bin abstraction.
ZeroPaddedFft(e) == e

Spectrum(E) == SqUnits(E)

\* a residual with the operands of the subtraction exchanged
PredictionErrorExchanged(S, y) ==
    LET tmp == Ifft(S)
        s == DivT(tmp, kFftLengthBy2)
    IN  [e |-> s - y, s |-> s]

\* PredictionError(): s = kScale * tmp, e = y - kScale * tmp
PredictionError(S, y) ==
    LET tmp == Ifft(S)
        s == DivT(tmp, kFftLengthBy2)
    IN  [e |-> y - s, s |-> s]

\* a rescale that leaves the residual of the unscaled echo estimate
ScaleFilterOutputStaleError(y, factor, s) ==
    [e |-> y - s, s |-> ScaleVal(s, factor)]

\* ScaleFilterOutput(): s[k] *= factor; e[k] = y[k] - s[k]
ScaleFilterOutput(y, factor, s) ==
    LET s2 == ScaleVal(s, factor)
    IN  [e |-> y - s2, s |-> s2]

\* energies taken from the main residual as clamped for the caller
ComputeMetricsOfClamped(e_main, e_shadow, y) ==
    [e2_main |-> SqUnits(SafeClamp(e_main)), e2_shadow |-> SqUnits(e_shadow),
     y2 |-> SqUnits(y)]

\* SubtractorOutput::ComputeMetrics(): energies of the block.
ComputeMetrics(e_main, e_shadow, y) ==
    [e2_main |-> SqUnits(e_main), e2_shadow |-> SqUnits(e_shadow),
     y2 |-> SqUnits(y)]

----------------------------------------------------------------------------
(* State of the Subtractor *)

VARIABLES
    main_filter_,                     \* per channel: main AdaptiveFirFilter
    shadow_filter_,                   \* per channel: shadow AdaptiveFirFilter
    G_main_,                          \* per channel: MainFilterUpdateGain
    G_shadow_,                        \* per channel: ShadowFilterUpdateGain
    filter_misadjustment_estimator_,  \* per channel: estimator state
    poor_shadow_filter_counter_,      \* per channel: consecutive-block count
    main_frequency_response_,         \* per channel: cached |H|^2
    main_impulse_response_,           \* per channel: cached impulse response
    outputs,                          \* per channel: last SubtractorOutput
    trace,                            \* per channel: steps of the last call
    call,                             \* the last call and its arguments
    calls                             \* number of calls made so far

vars == << simulcast_args, simulcast_result, reader, fuzz, config_,
           num_capture_channels_, data_dumper_,
           main_filter_, shadow_filter_, G_main_, G_shadow_,
           filter_misadjustment_estimator_, poor_shadow_filter_counter_,
           main_frequency_response_, main_impulse_response_, outputs,
           trace, call, calls >>

DelayAdjustments == {"kNone", "kNewDetectedDelay"}

Call(op) == [op |-> op, delay_change |-> "kNone", gain_change |-> FALSE]

NoOutput ==
    [e_main |-> 0, e_shadow |-> 0, s_main |-> 0, s_shadow |-> 0,
     E_main |-> 0, E2_main |-> 0, E2_shadow |-> 0,
     e2_main |-> 0, e2_shadow |-> 0, y2 |-> 0]

NoTrace ==
    [adjusted |-> FALSE, scale |-> 0, main_gain_computed |-> FALSE,
     erl |-> 0, G_main |-> 0, resync |-> FALSE, shadow_gain_input |-> "none",
     G_shadow |-> 0, s_main_filter |-> 0, e_main_unclamped |-> 0,
     h_scaled |-> << >>, y |-> 0, X |-> << >>,
     window |-> FALSE, e2_window |-> 0, y2_window |-> 0,
     inv_before |-> 0, overhang_before |-> 0,
     X2_main |-> 0, X2_shadow |-> 0, spectral_sums |-> << >>,
     X2_shadow_buffer |-> "none", capture_sizes |-> << >>,
     dumped |-> << >>]

\* a cache sized for the initial length of the main filter only
InitialMainLength == main_initial_length_blocks

MaxMainLength == Max(main_initial_length_blocks, main_length_blocks)

\* a constructor that accepts any pointer
ConstructorChecksSkipped(data_dumper) == TRUE

\* RTC_DCHECK(data_dumper_)
ConstructorChecks(data_dumper) == data_dumper # "nullptr"

\* The process has been terminated by a failed check.
Terminated == call.op = "FatalError"

\* Subtractor::Subtractor
Construct(config, num_capture_channels, data_dumper) ==
    /\ config_ = config
    /\ num_capture_channels_ = num_capture_channels
    /\ data_dumper_ = data_dumper
    /\ main_filter_ = [ch \in Channels |->
           NewFilter(main_length_blocks, main_initial_length_blocks)]
    /\ shadow_filter_ = [ch \in Channels |->
           NewFilter(shadow_length_blocks, shadow_initial_length_blocks)]
    /\ G_main_ = [ch \in Channels |-> NewGain]
    /\ G_shadow_ = [ch \in Channels |-> NewGain]
    /\ filter_misadjustment_estimator_ = [ch \in Channels |-> NewEstimator]
    /\ poor_shadow_filter_counter_ = [ch \in Channels |-> 0]
    /\ main_frequency_response_ = [ch \in Channels |-> Zeros(MaxMainLength)]
    /\ main_impulse_response_ = [ch \in Channels |-> Zeros(MaxMainLength)]
    /\ outputs = [ch \in Channels |-> NoOutput]
    /\ trace = [ch \in Channels |-> NoTrace]
    /\ call = IF ConstructorChecks(data_dumper) THEN Call("Subtractor")
              ELSE Call("FatalError")
    /\ calls = 0

Init ==
    /\ NoSimulcastCall
    /\ NoFuzzerRun
    /\ \E data_dumper \in DataDumpers : Construct(DefaultConfig, 1, data_dumper)

----------------------------------------------------------------------------
(* Subtractor::Process, the body of the loop over the capture channels *)

\* a main gain computed on every block
MainGainAlways(main_filter_adjusted) == TRUE

\* whether the main update gain is computed, given that a correction applied
MainGainNeeded(main_filter_adjusted) == ~main_filter_adjusted

\* a shadow gain always computed from the shadow filter's own error
ShadowGainInputOwnError(resync) == "E_shadow"

\* the error spectrum given to the shadow gain computer
ShadowGainInput(resync) == IF resync THEN "E_main" ELSE "E_shadow"

\* a counter of all the blocks on which the shadow filter was the worse one
CountPoorShadowCumulative(counter, e2_main, e2_shadow) ==
    IF e2_main < e2_shadow THEN counter + 1 ELSE counter

\* poor_shadow_filter_counter_ after the comparison of the block's energies
CountPoorShadow(counter, e2_main, e2_shadow) ==
    IF e2_main < e2_shadow THEN counter + 1 ELSE 0

\* a resync placed before the main filter's update
MainFilterBeforeUpdate(mf_before, mf_updated) == mf_before

\* main_filter_[ch] at the SetFilter of the resync: the update of the main
\* filter (ScaleFilter, Adapt) precedes it in the loop body
MainFilterAtResync(mf_before, mf_updated) == mf_updated

\* a resync that does not overwrite the shadow filter
ResyncShadowSkipped(sf, mf, resync) == sf

\* the shadow filter before its adaptation: overwritten on a resync
ResyncShadow(sf, mf, resync) ==
    IF resync THEN SetFilter(sf, GetFilter(mf)) ELSE sf

\* the window totals seen by an Update, if it completes a window, and the
\* smoothed factor and overhang it started from
WindowTrace(est, metrics) ==
    LET done == est.n_blocks_acum_ + 1 = n_blocks_
    IN  [window |-> done,
         e2_window |-> IF done THEN est.e2_acum_ + metrics.e2_main ELSE 0,
         y2_window |-> IF done THEN est.y2_acum_ + metrics.y2 ELSE 0,
         inv_before |-> est.inv_misadjustment_,
         overhang_before |-> est.overhang_]

\* the dumps made for a channel: data_dumper_->DumpRaw and DumpWav, the
\* estimator's Dump and DumpFilters, under if (ch == 0)
Dumped(ch) ==
    IF ch = 0
    THEN << "aec3_subtractor_G_main", "aec3_subtractor_G_shadow",
            "aec3_inv_misadjustment_factor", "DumpFilters",
            "aec3_main_filter_output", "aec3_shadow_filter_output" >>
    ELSE << >>

ProcessChannel(ch, X, y, saturated, poor_excitation, X2_main, X2_shadow) ==
    LET mf == main_filter_[ch]
        sf == shadow_filter_[ch]
        \* Form the outputs of the main and shadow filters.
        pm == PredictionError(FilterOutput(mf, X), y)
        ps == PredictionError(FilterOutput(sf, X), y)
        \* Compute the signal powers in the subtractor output.
        metrics == ComputeMetrics(pm.e, ps.e, y)
        \* Adjust the filter if needed.
        est0 == filter_misadjustment_estimator_[ch]
        est1 == EstimatorUpdate(est0, metrics)
        adjusted == IsAdjustmentNeeded(est1)
        scale == IF adjusted THEN GetMisadjustment(est1) ELSE 0
        mf1 == IF adjusted THEN ScaleFilter(mf, scale) ELSE mf
        h1 == IF adjusted
              THEN AsSeq([p \in 1 .. Len(main_impulse_response_[ch]) |->
                             ScaleVal(main_impulse_response_[ch][p], scale)])
              ELSE main_impulse_response_[ch]
        so == IF adjusted THEN ScaleFilterOutput(y, scale, pm.s) ELSE pm
        est2 == IF adjusted THEN EstimatorReset(est1) ELSE est1
        \* Compute the FFts of the main and shadow filter outputs.
        E_main == ZeroPaddedFft(so.e)
        E_shadow == ZeroPaddedFft(ps.e)
        \* Update the main filter.
        erl == ComputeErl(main_frequency_response_[ch])
        G == IF MainGainNeeded(adjusted)
             THEN MainGainCompute(X2_main, poor_excitation, E_main, erl,
                                  SizePartitions(mf1), saturated)
             ELSE 0
        mf2 == Adapt(mf1, X, G)
        h2 == ImpulseResponse(mf2, h1)
        H2 == ComputeFrequencyResponse(mf2, main_frequency_response_[ch])
        \* Update the shadow filter.
        counter == CountPoorShadow(poor_shadow_filter_counter_[ch],
                                   metrics.e2_main, metrics.e2_shadow)
        resync == ~(counter < kPoorShadowLimit)
        sf1 == ResyncShadow(sf, MainFilterAtResync(mf, mf2), resync)
        Gs == ShadowGainCompute(X2_shadow, poor_excitation,
                  IF ShadowGainInput(resync) = "E_main" THEN E_main
                  ELSE E_shadow,
                  SizePartitions(sf1), saturated)
        sf2 == Adapt(sf1, X, Gs)
        w == WindowTrace(est0, metrics)
    IN  [main_filter |-> mf2,
         shadow_filter |-> sf2,
         estimator |-> est2,
         counter |-> IF resync THEN 0 ELSE counter,
         frequency_response |-> H2,
         impulse_response |-> h2,
         output |-> [e_main |-> SafeClamp(so.e), e_shadow |-> ps.e,
                     s_main |-> so.s, s_shadow |-> ps.s,
                     E_main |-> E_main,
                     E2_main |-> Spectrum(E_main),
                     E2_shadow |-> Spectrum(E_shadow),
                     e2_main |-> metrics.e2_main,
                     e2_shadow |-> metrics.e2_shadow,
                     y2 |-> metrics.y2],
         trace |-> [adjusted |-> adjusted, scale |-> scale,
                    main_gain_computed |-> MainGainNeeded(adjusted),
                    erl |-> IF MainGainNeeded(adjusted) THEN erl ELSE 0,
                    G_main |-> G, resync |-> resync,
                    shadow_gain_input |-> ShadowGainInput(resync),
                    G_shadow |-> Gs, s_main_filter |-> pm.s,
                    e_main_unclamped |-> so.e,
                    h_scaled |-> h1, y |-> y, X |-> X,
                    window |-> w.window, e2_window |-> w.e2_window,
                    y2_window |-> w.y2_window,
                    inv_before |-> w.inv_before,
                    overhang_before |-> w.overhang_before,
                    X2_main |-> X2_main, X2_shadow |-> X2_shadow,
                    spectral_sums |-> << >>, X2_shadow_buffer |-> "none",
                    capture_sizes |-> << >>, dumped |-> Dumped(ch)]]

\* a loop whose every iteration works on channel 0
RECURSIVE ForEachChannelFirstOnly(_, _, _, _, _, _, _)
ForEachChannelFirstOnly(n, X, capture, saturated, poor_excitation, X2_main, X2_shadow) ==
    IF n = 0 THEN << >>
    ELSE Append(ForEachChannelFirstOnly(n - 1, X, capture, saturated,
                                        poor_excitation, X2_main, X2_shadow),
                ProcessChannel(0, X, capture[0], saturated,
                               poor_excitation, X2_main, X2_shadow))

\* for (size_t ch = 0; ch < num_capture_channels_; ++ch): the results of the
\* loop body for channels 0 .. n-1, as a sequence (channel ch at ch + 1)
RECURSIVE ForEachChannel(_, _, _, _, _, _, _)
ForEachChannel(n, X, capture, saturated, poor_excitation, X2_main, X2_shadow) ==
    IF n = 0 THEN << >>
    ELSE Append(ForEachChannel(n - 1, X, capture, saturated, poor_excitation,
                               X2_main, X2_shadow),
                ProcessChannel(n - 1, X, capture[n - 1], saturated,
                               poor_excitation, X2_main, X2_shadow))

CoefficientsBounded(f) == \A p \in 1 .. Len(f.H) : Abs(f.H[p]) <= MaxCoeff

\* Contents that an array declared without an initialiser can hold.
UninitializedVals == {0, 7}

\* RenderBuffer::SpectralSums: the render power over the n_shorter and over
\* the n_longer latest blocks.
SpectralSums(X, n_shorter, n_longer) ==
    [shorter |-> SpectralSum(X, n_shorter), longer |-> SpectralSum(X, n_longer)]

\* the array that the reference X2_shadow is bound to
X2ShadowBuffer(size_main, size_shadow) ==
    IF size_main = size_shadow THEN "X2_main" ELSE "X2_shadow_data"

\* render powers with the two sums of unequal lengths stored crosswise
RenderPowersCrossed(X, size_main, size_shadow, uninit) ==
    LET ref == X2ShadowBuffer(size_main, size_shadow)
        ss == SpectralSums(X, Min(size_main, size_shadow),
                           Max(size_main, size_shadow))
    IN  IF size_main = size_shadow
        THEN [X2_main |-> SpectralSum(X, size_main),
              X2_shadow |-> SpectralSum(X, size_main),
              X2_shadow_buffer |-> ref, spectral_sums |-> << size_main >>]
        ELSE [X2_main |-> IF size_main > size_shadow THEN ss.shorter
                          ELSE ss.longer,
              X2_shadow |-> IF size_main > size_shadow THEN ss.longer
                            ELSE ss.shorter,
              X2_shadow_buffer |-> ref,
              spectral_sums |-> << Min(size_main, size_shadow),
                                   Max(size_main, size_shadow) >>]

\* render powers with the one sum of the main filter's length only
RenderPowersMainOnly(X, size_main, size_shadow, uninit) ==
    LET ref == X2ShadowBuffer(size_main, size_shadow)
        arrays == [X2_main |-> SpectralSum(X, size_main),
                   X2_shadow_data |-> uninit]
    IN  [X2_main |-> arrays.X2_main, X2_shadow |-> arrays[ref],
         X2_shadow_buffer |-> ref, spectral_sums |-> << size_main >>]

\* Compute the render powers: the arrays X2_main and X2_shadow_data, which
\* start uninitialised, after the spectral sums, X2_shadow read through its
\* reference, and the partition counts that were summed.
RenderPowers(X, size_main, size_shadow, uninit) ==
    LET ref == X2ShadowBuffer(size_main, size_shadow)
        arrays0 == [X2_main |-> uninit, X2_shadow_data |-> uninit]
        arrays ==
            IF size_main = size_shadow
            THEN [arrays0 EXCEPT !.X2_main = SpectralSum(X, size_main)]
            ELSE IF size_main > size_shadow
            THEN LET ss == SpectralSums(X, size_shadow, size_main)
                 IN  [arrays0 EXCEPT ![ref] = ss.shorter,
                                     !.X2_main = ss.longer]
            ELSE LET ss == SpectralSums(X, size_main, size_shadow)
                 IN  [arrays0 EXCEPT !.X2_main = ss.shorter,
                                     ![ref] = ss.longer]
    IN  [X2_main |-> arrays.X2_main, X2_shadow |-> arrays[ref],
         X2_shadow_buffer |-> ref,
         spectral_sums |-> IF size_main = size_shadow THEN << size_main >>
                           ELSE << Min(size_main, size_shadow),
                                   Max(size_main, size_shadow) >>]

\* a Process that checks neither the number nor the length of the blocks
ProcessChecksSkipped(capture_sizes) == TRUE

\* RTC_DCHECK_EQ(num_capture_channels_, capture.size()) and, for every
\* channel, RTC_DCHECK_EQ(kBlockSize, capture[ch].size())
ProcessChecks(capture_sizes) ==
    /\ Len(capture_sizes) = num_capture_channels_
    /\ \A ch \in Channels : capture_sizes[ch + 1] = kBlockSize

\* What calling a member function through the pointer can do.
Dereference(pointer) ==
    IF pointer = "nullptr" THEN {"crash", "continue"} ELSE {"continue"}

\* A failed check terminates the process.
FatalError ==
    /\ call' = Call("FatalError")
    /\ trace' = [ch \in Channels |-> NoTrace]
    /\ UNCHANGED << simulcast_vars, fuzzer_vars, config_, num_capture_channels_,
                    data_dumper_,
                    main_filter_, shadow_filter_,
                    G_main_, G_shadow_, filter_misadjustment_estimator_,
                    poor_shadow_filter_counter_, main_frequency_response_,
                    main_impulse_response_, outputs >>

Process(X, capture, capture_sizes, saturated, poor_excitation) ==
    /\ ~Terminated
    /\ calls < MaxCalls
    /\ calls' = calls + 1
    /\ \E deref \in Dereference(data_dumper_) :
        IF ~ProcessChecks(capture_sizes) \/ deref = "crash"
        THEN FatalError
        ELSE
        \E rp \in {RenderPowers(X, SizePartitions(main_filter_[0]),
                                 SizePartitions(shadow_filter_[0]), uninit) :
                        uninit \in UninitializedVals} :
        \E r \in {ForEachChannel(num_capture_channels_, X, capture,
                                  saturated, poor_excitation, rp.X2_main,
                                  rp.X2_shadow)} :
            /\ \A ch \in Channels :
                   /\ CoefficientsBounded(r[ch + 1].main_filter)
                   /\ CoefficientsBounded(r[ch + 1].shadow_filter)
            /\ call' = Call("Process")
            /\ main_filter_' = [ch \in Channels |-> r[ch + 1].main_filter]
            /\ shadow_filter_' = [ch \in Channels |-> r[ch + 1].shadow_filter]
            /\ filter_misadjustment_estimator_' =
                   [ch \in Channels |-> r[ch + 1].estimator]
            /\ poor_shadow_filter_counter_' =
                   [ch \in Channels |-> r[ch + 1].counter]
            /\ main_frequency_response_' =
                   [ch \in Channels |-> r[ch + 1].frequency_response]
            /\ main_impulse_response_' =
                   [ch \in Channels |-> r[ch + 1].impulse_response]
            /\ outputs' = [ch \in Channels |-> r[ch + 1].output]
            /\ trace' = [ch \in Channels |->
                   [r[ch + 1].trace EXCEPT
                       !.spectral_sums = rp.spectral_sums,
                       !.X2_shadow_buffer = rp.X2_shadow_buffer,
                       !.capture_sizes = capture_sizes]]
            /\ UNCHANGED << simulcast_vars, fuzzer_vars, config_, num_capture_channels_,
                    data_dumper_,
                    G_main_, G_shadow_ >>

----------------------------------------------------------------------------
(* Subtractor::HandleEchoPathChange and Subtractor::ExitInitialState *)

\* a full reset on every echo-path change
FullResetOnAnyChange(delay_change) == TRUE

\* echo_path_variability.delay_change != DelayAdjustment::kNone
FullResetNeeded(delay_change) == delay_change # "kNone"

\* a full reset that zeroes the filter but keeps its size
FullResetFilterKeepSize(f, initial_length_blocks) ==
    FilterHandleEchoPathChange(f)

\* the full_reset lambda, for one channel's filter
FullResetFilter(f, initial_length_blocks) ==
    SetSizePartitions(FilterHandleEchoPathChange(f), initial_length_blocks,
                      TRUE)

\* the full_reset lambda, for one channel's main gain computer
FullResetMainGain(g, gain_change) ==
    GainSetConfig(MainGainHandleEchoPathChange(g, TRUE, gain_change),
                  "initial", TRUE)

\* the full_reset lambda, for one channel's shadow gain computer
FullResetShadowGain(g) ==
    GainSetConfig(ShadowGainHandleEchoPathChange(g), "initial", TRUE)

\* an echo-path change that clears the estimator
EstimatorClearedByEchoPathChange(est) == NewEstimator

\* the estimator of a channel across an echo-path change
EstimatorAcrossEchoPathChange(est) == est

HandleEchoPathChange(delay_change, gain_change) ==
    LET delay == FullResetNeeded(delay_change)
        gm1 == [ch \in Channels |->
                   IF delay THEN FullResetMainGain(G_main_[ch], gain_change)
                   ELSE G_main_[ch]]
    IN  /\ ~Terminated
        /\ calls < MaxCalls
        /\ calls' = calls + 1
        /\ call' = [op |-> "HandleEchoPathChange",
                    delay_change |-> delay_change,
                    gain_change |-> gain_change]
        /\ main_filter_' = [ch \in Channels |->
               IF delay
               THEN FullResetFilter(main_filter_[ch],
                                    main_initial_length_blocks)
               ELSE main_filter_[ch]]
        /\ shadow_filter_' = [ch \in Channels |->
               IF delay
               THEN FullResetFilter(shadow_filter_[ch],
                                    shadow_initial_length_blocks)
               ELSE shadow_filter_[ch]]
        /\ G_main_' = [ch \in Channels |->
               IF gain_change
               THEN MainGainHandleEchoPathChange(gm1[ch], delay, TRUE)
               ELSE gm1[ch]]
        /\ G_shadow_' = [ch \in Channels |->
               IF delay THEN FullResetShadowGain(G_shadow_[ch])
               ELSE G_shadow_[ch]]
        /\ filter_misadjustment_estimator_' = [ch \in Channels |->
               EstimatorAcrossEchoPathChange(
                   filter_misadjustment_estimator_[ch])]
        /\ trace' = [ch \in Channels |-> NoTrace]
        /\ UNCHANGED << simulcast_vars, fuzzer_vars, config_, num_capture_channels_,
                    data_dumper_,
                    poor_shadow_filter_counter_,
                        main_frequency_response_, main_impulse_response_,
                        outputs >>

\* G_main_[ch]->SetConfig(config_.filter.main, false), and the shadow's
ExitInitialGain(g) == GainSetConfig(g, "converged", FALSE)

\* a forced, immediate move to the converged length
ExitInitialFilterForced(f, length_blocks) ==
    SetSizePartitions(f, length_blocks, TRUE)

\* SetSizePartitions(config_.filter.<filter>.length_blocks, false)
ExitInitialFilter(f, length_blocks) ==
    SetSizePartitions(f, length_blocks, FALSE)

\* an ExitInitialState that reconfigures the first channel only
ExitInitialStateFirstChannel(num_capture_channels) == {0}

\* for (size_t ch = 0; ch < num_capture_channels_; ++ch) in ExitInitialState
ExitInitialStateLoop(num_capture_channels) == 0 .. (num_capture_channels - 1)

ExitInitialState ==
    LET loop == ExitInitialStateLoop(num_capture_channels_)
    IN
    /\ ~Terminated
    /\ calls < MaxCalls
    /\ calls' = calls + 1
    /\ call' = Call("ExitInitialState")
    /\ G_main_' = [ch \in Channels |->
           IF ch \in loop THEN ExitInitialGain(G_main_[ch]) ELSE G_main_[ch]]
    /\ G_shadow_' = [ch \in Channels |->
           IF ch \in loop THEN ExitInitialGain(G_shadow_[ch])
           ELSE G_shadow_[ch]]
    /\ main_filter_' = [ch \in Channels |->
           IF ch \in loop
           THEN ExitInitialFilter(main_filter_[ch], main_length_blocks)
           ELSE main_filter_[ch]]
    /\ shadow_filter_' = [ch \in Channels |->
           IF ch \in loop
           THEN ExitInitialFilter(shadow_filter_[ch], shadow_length_blocks)
           ELSE shadow_filter_[ch]]
    /\ trace' = [ch \in Channels |-> NoTrace]
    /\ UNCHANGED << simulcast_vars, fuzzer_vars, config_, num_capture_channels_,
                    data_dumper_,
                    filter_misadjustment_estimator_,
                    poor_shadow_filter_counter_, main_frequency_response_,
                    main_impulse_response_, outputs >>

----------------------------------------------------------------------------
(* Specification of the Subtractor *)

\* The blocks given to Process: any render history and capture block of the
\* input sets, or a capture vector of a wrong number or length, with a
\* capture that is not saturated and a render signal that is not poorly
\* excited.
ProcessStep ==
    \E in \in ProcessInputs,
       saturated \in {FALSE}, poor_excitation \in {FALSE} :
        Process(in.X, in.capture, in.capture_sizes, saturated,
                poor_excitation)

EchoPathChangeStep ==
    \E delay_change \in DelayAdjustments, gain_change \in BOOLEAN :
        HandleEchoPathChange(delay_change, gain_change)

Next == ProcessStep \/ EchoPathChangeStep \/ ExitInitialState

Spec == Init /\ [][Next]_vars

\* The Subtractor constructed with the configuration whose main filter grows
\* from below the shadow filter's length to above it, over MaxCallsShort
\* calls.
LongMainInit ==
    /\ NoSimulcastCall
    /\ NoFuzzerRun
    /\ \E data_dumper \in DataDumpers : Construct(LongMainConfig, 1, data_dumper)

LongMainProcessStep == calls < MaxCallsShort /\ ProcessStep

LongMainEchoPathChangeStep == calls < MaxCallsShort /\ EchoPathChangeStep

LongMainExitInitialState == calls < MaxCallsShort /\ ExitInitialState

LongMainNext ==
    \/ LongMainProcessStep
    \/ LongMainEchoPathChangeStep
    \/ LongMainExitInitialState

LongMainSpec == LongMainInit /\ [][LongMainNext]_vars

\* The Subtractor constructed for two capture channels, with either
\* configuration.
TwoChannelInit ==
    /\ NoSimulcastCall
    /\ NoFuzzerRun
    /\ \E config \in {DefaultConfig, LongMainConfig} :
           Construct(config, MaxChannels, "dumper")

TwoChannelProcessStep == calls < MaxCallsTwoChannels /\ ProcessStep

TwoChannelEchoPathChangeStep ==
    calls < MaxCallsTwoChannels /\ EchoPathChangeStep

TwoChannelExitInitialState == calls < MaxCallsTwoChannels /\ ExitInitialState

TwoChannelNext ==
    \/ TwoChannelProcessStep
    \/ TwoChannelEchoPathChangeStep
    \/ TwoChannelExitInitialState

TwoChannelSpec == TwoChannelInit /\ [][TwoChannelNext]_vars

\* Capture samples are floats: a block at the upper limit of the 16-bit
\* range and a block above it.
LoudCaptureVals == {kClampMax, 40000}

\* A loud capture block while the render history is silent.
LoudInputs ==
    {[X |-> [p \in Partitions |-> 0], capture |-> [ch \in Channels |-> y],
      capture_sizes |-> WellFormedSizes(num_capture_channels_)] :
        y \in LoudCaptureVals}

LoudProcessStep ==
    /\ calls < MaxCallsShort
    /\ \E in \in ProcessInputs \cup LoudInputs,
          saturated \in {FALSE}, poor_excitation \in {FALSE} :
           Process(in.X, in.capture, in.capture_sizes, saturated,
                   poor_excitation)

LoudNext ==
    \/ LoudProcessStep
    \/ LongMainEchoPathChangeStep
    \/ LongMainExitInitialState

\* The Subtractor given, besides the blocks of Spec, loud capture blocks,
\* over MaxCallsShort calls.
LoudSpec == Init /\ [][LoudNext]_vars

----------------------------------------------------------------------------
(* The FilterMisadjustmentEstimator driven alone, the way Process drives    *)
(* it: one Update per block with the block's energies, and a Reset before   *)
(* the next Update whenever the Update signals an adjustment.               *)

AdjustmentPending ==
    \E ch \in Channels :
        IsAdjustmentNeeded(filter_misadjustment_estimator_[ch])

\* filter_misadjustment_estimator_[ch].Update(output)
Update(e2_main, y2) ==
    LET metrics == [e2_main |-> e2_main, y2 |-> y2]
    IN  /\ ~Terminated
        /\ calls < MaxUpdates
        /\ ~AdjustmentPending
        /\ calls' = calls + 1
        /\ call' = Call("Update")
        /\ filter_misadjustment_estimator_' = [ch \in Channels |->
               EstimatorUpdate(filter_misadjustment_estimator_[ch], metrics)]
        /\ outputs' = [ch \in Channels |->
               [outputs[ch] EXCEPT !.e2_main = e2_main, !.y2 = y2]]
        /\ trace' = [ch \in Channels |->
               LET w == WindowTrace(filter_misadjustment_estimator_[ch],
                                    metrics)
               IN  [NoTrace EXCEPT !.window = w.window,
                                   !.e2_window = w.e2_window,
                                   !.y2_window = w.y2_window,
                                   !.inv_before = w.inv_before,
                                   !.overhang_before = w.overhang_before]]
        /\ UNCHANGED << simulcast_vars, fuzzer_vars, config_, num_capture_channels_,
                    data_dumper_,
                    main_filter_, shadow_filter_,
                        G_main_, G_shadow_, poor_shadow_filter_counter_,
                        main_frequency_response_, main_impulse_response_ >>

\* filter_misadjustment_estimator_[ch].Reset()
Reset ==
    /\ AdjustmentPending
    /\ calls' = calls
    /\ call' = Call("Reset")
    /\ filter_misadjustment_estimator_' = [ch \in Channels |->
           IF IsAdjustmentNeeded(filter_misadjustment_estimator_[ch])
           THEN EstimatorReset(filter_misadjustment_estimator_[ch])
           ELSE filter_misadjustment_estimator_[ch]]
    /\ trace' = [ch \in Channels |->
           [NoTrace EXCEPT !.adjusted =
               IsAdjustmentNeeded(filter_misadjustment_estimator_[ch])]]
    /\ UNCHANGED << simulcast_vars, fuzzer_vars, config_, num_capture_channels_,
                    data_dumper_,
                    main_filter_, shadow_filter_,
                    G_main_, G_shadow_, poor_shadow_filter_counter_,
                    main_frequency_response_, main_impulse_response_,
                    outputs >>

UpdateStep ==
    \E e2_main \in ResidualEnergies, y2 \in CaptureEnergies :
        Update(e2_main, y2)

EstimatorNext == UpdateStep \/ Reset

EstimatorSpec == Init /\ [][EstimatorNext]_vars

----------------------------------------------------------------------------
(* The simulcast functions applied to one set of arguments *)

SimulcastWidths ==
    {-1, 0, 1, 2, 3, 5, 6, 7, 320, 321, 480, 640, 959, 960, 1280, 1922, 65536}

SimulcastHeights ==
    {0, 1, 3, 4, 180, 181, 270, 360, 539, 540, 720, 1083, 32768, 65536}

SimulcastLayerCounts == 0 .. MaxLayerCount

\* The field trial settings a simulcast call is made under: none, a number
\* of screenshare temporal layers (7 is rejected), the base-heavy rate
\* allocation, no legacy layer limit, and experimental screenshare bitrates.
SimulcastFieldTrials ==
    {NoFieldTrials,
     FieldTrials({3}, FALSE, FALSE, {}, {}),
     FieldTrials({4}, FALSE, FALSE, {}, {}),
     FieldTrials({7}, FALSE, FALSE, {}, {}),
     FieldTrials({3}, TRUE, FALSE, {}, {}),
     FieldTrials({}, FALSE, TRUE, {}, {}),
     FieldTrials({}, FALSE, FALSE, {300000}, {500000})}

BitratePriorities == {4}

MaxQps == {56}

\* what NormalizeSimulcastSizeExperiment::GetBase2Exponent() returns
ExperimentalBase2Exponents == {{}, {0}, {3}}

SimulcastInit ==
    /\ Construct(DefaultConfig, 1, "dumper")
    /\ NoFuzzerRun
    /\ \E layer_count \in SimulcastLayerCounts, width \in SimulcastWidths,
          height \in SimulcastHeights, temporal_layers_supported \in BOOLEAN,
          experimental_base2_exponent \in ExperimentalBase2Exponents :
          simulcast_args = SimulcastArgs(layer_count, width, height,
                                         temporal_layers_supported,
                                         experimental_base2_exponent)
    /\ simulcast_result = [op |-> "none"]

SubtractorUnchanged ==
    UNCHANGED << config_, num_capture_channels_, data_dumper_,
                 main_filter_, shadow_filter_, G_main_, G_shadow_, filter_misadjustment_estimator_,
                 poor_shadow_filter_counter_, main_frequency_response_,
                 main_impulse_response_, outputs, trace, call, calls >>

FindSimulcastFormatIndexStep ==
    /\ simulcast_result.op = "none"
    /\ \E result \in FindSimulcastFormatIndex(simulcast_args.width,
                                              simulcast_args.height) :
          simulcast_result' = [op |-> "FindSimulcastFormatIndex",
                               result |-> result]
    /\ UNCHANGED simulcast_args
    /\ UNCHANGED fuzzer_vars
    /\ SubtractorUnchanged

GetNormalSimulcastLayersStep ==
    /\ simulcast_result.op = "none"
    /\ \E result \in GetNormalSimulcastLayers(
                         simulcast_args.layer_count, simulcast_args.width,
                         simulcast_args.height,
                         simulcast_args.temporal_layers_supported,
                         simulcast_args.experimental_base2_exponent) :
          simulcast_result' = [op |-> "GetNormalSimulcastLayers",
                               result |-> result]
    /\ UNCHANGED simulcast_args
    /\ UNCHANGED fuzzer_vars
    /\ SubtractorUnchanged

GetScreenshareLayersStep ==
    /\ simulcast_result.op = "none"
    /\ \E field_trials \in SimulcastFieldTrials,
          bitrate_priority \in BitratePriorities, max_qp \in MaxQps :
          \E result \in GetScreenshareLayers(
                             simulcast_args.layer_count, simulcast_args.width,
                             simulcast_args.height, bitrate_priority, max_qp,
                             simulcast_args.temporal_layers_supported,
                             field_trials) :
              simulcast_result' = [op |-> "GetScreenshareLayers",
                                   field_trials |-> field_trials,
                                   bitrate_priority |-> bitrate_priority,
                                   result |-> result]
    /\ UNCHANGED simulcast_args
    /\ UNCHANGED fuzzer_vars
    /\ SubtractorUnchanged

GetSimulcastConfigStep ==
    /\ simulcast_result.op = "none"
    /\ \E field_trials \in SimulcastFieldTrials,
          bitrate_priority \in BitratePriorities, max_qp \in MaxQps,
          is_screenshare_with_conference_mode \in BOOLEAN :
          \E result \in GetSimulcastConfig(
                             simulcast_args.layer_count, simulcast_args.width,
                             simulcast_args.height, bitrate_priority, max_qp,
                             is_screenshare_with_conference_mode,
                             simulcast_args.temporal_layers_supported,
                             field_trials,
                             simulcast_args.experimental_base2_exponent) :
              simulcast_result' =
                  [op |-> "GetSimulcastConfig",
                   field_trials |-> field_trials,
                   is_screenshare_with_conference_mode |->
                       is_screenshare_with_conference_mode,
                   result |-> result]
    /\ UNCHANGED simulcast_args
    /\ UNCHANGED fuzzer_vars
    /\ SubtractorUnchanged

SimulcastNext ==
    \/ FindSimulcastFormatIndexStep
    \/ GetNormalSimulcastLayersStep
    \/ GetScreenshareLayersStep
    \/ GetSimulcastConfigStep

SimulcastSpec == SimulcastInit /\ [][SimulcastNext]_vars

----------------------------------------------------------------------------
(* The bitrate functions applied to one vector of layers *)

\* Bitrates of a layer in bps: 0, and values of the range of
\* kSimulcastFormats.
TargetBitrates == {0, 150000, 500000}

MaxBitrates == {0, 200000, 700000}

\* The VideoStreams of a vector: their bitrates.
BitrateLayers ==
    [min_bitrate_bps : {30000}, target_bitrate_bps : TargetBitrates,
     max_bitrate_bps : MaxBitrates]

\* Vectors of 0 to kMaxSimulcastStreams layers.
LayerVectors ==
    UNION {[0 .. n - 1 -> BitrateLayers] : n \in 0 .. kMaxSimulcastStreams}

\* The max_bitrate_bps given to BoostMaxSimulcastLayer.
BoostBitrates == {-1, 0, 600000, 1000000, 2500000, Int32Max}

BitrateInit ==
    /\ Construct(DefaultConfig, 1, "dumper")
    /\ NoFuzzerRun
    /\ \E max_bitrate_bps \in BoostBitrates, layers \in LayerVectors :
          simulcast_args = [max_bitrate_bps |-> max_bitrate_bps,
                            layers |-> layers]
    /\ simulcast_result = [op |-> "none"]

GetTotalMaxBitrateBpsStep ==
    /\ simulcast_result.op = "none"
    /\ simulcast_result' =
           [op |-> "GetTotalMaxBitrateBps",
            result |-> GetTotalMaxBitrateBps(simulcast_args.layers)]
    /\ UNCHANGED simulcast_args
    /\ UNCHANGED fuzzer_vars
    /\ SubtractorUnchanged

BoostMaxSimulcastLayerStep ==
    /\ simulcast_result.op = "none"
    /\ simulcast_result' =
           [op |-> "BoostMaxSimulcastLayer",
            layers |-> BoostMaxSimulcastLayer(simulcast_args.max_bitrate_bps,
                                              simulcast_args.layers)]
    /\ UNCHANGED simulcast_args
    /\ UNCHANGED fuzzer_vars
    /\ SubtractorUnchanged

BitrateNext == GetTotalMaxBitrateBpsStep \/ BoostMaxSimulcastLayerStep

BitrateSpec == BitrateInit /\ [][BitrateNext]_vars

----------------------------------------------------------------------------
(* The DataReader called directly, and FuzzOneInput run on an input *)

\* if (size > 20000) return;
kMaxFuzzInputSize == 20000

\* Input sizes: the short ones, the largest accepted and the first refused.
InputSizes == (0 .. MaxInputSize) \cup {kMaxFuzzInputSize, kMaxFuzzInputSize + 1}

\* The sizes given to CopyTo and the sizes of the numbers read by GetNum.
CopySizes == {0, 1, SizeofPacket, 2 * MaxInputSize}

NumSizes == {1, 2, 4, 8}

FuzzerInit ==
    /\ Construct(DefaultConfig, 1, "dumper")
    /\ NoSimulcastCall
    /\ \/ \E size \in 0 .. MaxInputSize :
              /\ reader = DataReader(size)
              /\ fuzz = Fuzz("calls", size, TRUE, 0)
       \/ \E size \in InputSizes :
              /\ reader = DataReader(0)
              /\ fuzz = Fuzz("FuzzOneInput", size, TRUE, 0)

FuzzerFrame == SubtractorUnchanged /\ UNCHANGED simulcast_vars

CopyToStep ==
    /\ fuzz.pc = "calls"
    /\ \E size \in CopySizes :
          \E r \in {CopyTo(reader, size)} :
              /\ reader' = r.reader
              /\ fuzz' = [fuzz EXCEPT !.read_end = r.read_end]
    /\ FuzzerFrame

GetNumStep ==
    /\ fuzz.pc = "calls"
    /\ \E sizeof_res \in NumSizes :
          \E r \in {GetNum(reader, sizeof_res)} :
              /\ reader' = r.reader
              /\ fuzz' = [fuzz EXCEPT !.read_end = r.read_end]
    /\ FuzzerFrame

\* FuzzOneInput up to its loop: the size check, the reader and the
\* FuzzyPacketBuffer, whose constructor reads the codec.
FuzzOneInputEntry ==
    /\ fuzz.pc = "FuzzOneInput"
    /\ IF fuzz.size > kMaxFuzzInputSize
       THEN /\ fuzz' = [fuzz EXCEPT !.pc = "returned"]
            /\ UNCHANGED reader
       ELSE \E r \in {GetNum(DataReader(fuzz.size), 1)} :
                /\ reader' = r.reader
                /\ fuzz' = [fuzz EXCEPT !.pc = "while",
                                        !.read_end = r.read_end]
    /\ FuzzerFrame

\* One iteration of while (reader.MoreToRead()). The sequence numbers are
\* values of the input: the first packet can be in the map unless the map
\* is empty, and the last can be unless no number could be read, which
\* makes both numbers 0.
FuzzOneInputIteration ==
    /\ fuzz.pc = "while"
    /\ MoreToRead(reader)
    /\ \E first_seq_num \in {GetNum(reader, 2)} :
       \E last_seq_num \in {GetNum(first_seq_num.reader, 2)} :
       \E first_found \in IF fuzz.packets_empty THEN {FALSE} ELSE BOOLEAN :
       \E last_found \in IF first_seq_num.read_end = 0 THEN {TRUE}
                          ELSE BOOLEAN :
       \E first_packet \in {GetPacket(last_seq_num.reader, first_found)} :
       \E last_packet \in {GetPacket(first_packet.reader, last_found)} :
           /\ reader' = last_packet.reader
           /\ fuzz' = [fuzz EXCEPT
                  !.packets_empty = FALSE,
                  !.read_end = Max(Max(first_seq_num.read_end,
                                       last_seq_num.read_end),
                                   Max(first_packet.read_end,
                                       last_packet.read_end))]
    /\ FuzzerFrame

\* The loop condition fails and FuzzOneInput returns.
FuzzOneInputReturn ==
    /\ fuzz.pc = "while"
    /\ ~MoreToRead(reader)
    /\ fuzz' = [fuzz EXCEPT !.pc = "returned"]
    /\ UNCHANGED reader
    /\ FuzzerFrame

FuzzOneInput ==
    FuzzOneInputEntry \/ FuzzOneInputIteration \/ FuzzOneInputReturn

FuzzerNext ==
    \/ CopyToStep
    \/ GetNumStep
    \/ FuzzOneInputEntry
    \/ FuzzOneInputIteration
    \/ FuzzOneInputReturn

\* FuzzOneInput runs on its thread until it returns.
FuzzerSpec == FuzzerInit /\ [][FuzzerNext]_vars /\ WF_vars(FuzzOneInput)

----------------------------------------------------------------------------
(* Properties of Subtractor::Process *)

ZeroEstimator ==
    [e2_acum_ |-> 0, y2_acum_ |-> 0, n_blocks_acum_ |-> 0,
     inv_misadjustment_ |-> 0, overhang_ |-> 0]

AfterProcess == call.op = "Process"

\* the block's comparison takes the channel's counter to kPoorShadowLimit
ResyncDue(ch) ==
    /\ poor_shadow_filter_counter_[ch] = kPoorShadowLimit - 1
    /\ outputs'[ch].e2_main < outputs'[ch].e2_shadow

\* the shadow coefficients are the main filter's coefficients of the end of
\* the block plus the block's shadow adaptation step, on the shadow filter's
\* active partitions
ShadowIsAdaptedCopy(sf, mf, tr) ==
    \A p \in 1 .. Len(sf.H) :
        sf.H[p] = IF p <= sf.current_size_partitions_
                  THEN mf.H[p] + tr.X[p] * tr.G_shadow
                  ELSE 0

ResyncStep ==
    call'.op = "Process" =>
        \A ch \in Channels :
            /\ trace'[ch].resync <=> ResyncDue(ch)
            /\ ResyncDue(ch) =>
                   /\ poor_shadow_filter_counter_'[ch] = 0
                   /\ trace'[ch].shadow_gain_input = "E_main"
                   /\ ShadowIsAdaptedCopy(shadow_filter_'[ch],
                                          main_filter_'[ch], trace'[ch])

\* C1 (as amended): on the block on which a channel's count of consecutive
\* blocks with e2_main < e2_shadow reaches 5, and on no other block, the
\* counter is set back to 0 and the shadow filter's coefficients are
\* overwritten with the main filter's coefficients of the end of that block
\* and then adapted once with the shadow gain computed from E_main: right
\* after the block they are the main filter's coefficients plus that step.
C1_ResyncCopiesThenAdapts == [][ResyncStep]_vars

C1_Witness ==
    \E ch \in Channels :
        /\ AfterProcess
        /\ trace[ch].resync
        /\ trace[ch].G_shadow # 0
        /\ trace[ch].X[1] # 0

\* C1 (as stated): right after the 5th consecutive block with
\* e2_main < e2_shadow the shadow filter's coefficients equal the main
\* filter's and the counter is 0.
C1_ResyncLeavesFiltersEqual ==
    \A ch \in Channels :
        (AfterProcess /\ trace[ch].resync) =>
            /\ poor_shadow_filter_counter_[ch] = 0
            /\ \A p \in 1 .. Min(SizePartitions(shadow_filter_[ch]),
                                 SizePartitions(main_filter_[ch])) :
                   shadow_filter_[ch].H[p] = main_filter_[ch].H[p]

\* C2: at the end of every Process call no channel's estimator signals a
\* pending adjustment, and on a block on which the correction was applied
\* all five fields of the estimator are zero.
C2_NoPendingAdjustment ==
    \A ch \in Channels :
        /\ ~IsAdjustmentNeeded(filter_misadjustment_estimator_[ch])
        /\ (AfterProcess /\ trace[ch].adjusted) =>
               filter_misadjustment_estimator_[ch] = ZeroEstimator

C2_Witness ==
    \E ch \in Channels :
        /\ AfterProcess
        /\ trace[ch].adjusted
        /\ trace[ch].e2_window > kDivergenceThreshold

ScaledBy(H1, H0, f) ==
    /\ Len(H1) = Len(H0)
    /\ \A p \in 1 .. Len(H0) : H1[p] = ScaleVal(H0[p], f)

CorrectionSkipsMainGain ==
    call'.op = "Process" =>
        \A ch \in Channels :
            trace'[ch].adjusted =>
                /\ ~trace'[ch].main_gain_computed
                /\ trace'[ch].G_main = 0
                /\ ScaledBy(main_filter_'[ch].H, main_filter_[ch].H,
                            trace'[ch].scale)

\* C3: on a block on which the correction is applied the main gain is not
\* computed, the main filter is adapted with a zero gain, and its
\* coefficients at the end of the block are those of the start of the block
\* times the correction factor.
C3_CorrectionSkipsMainGain == [][CorrectionSkipsMainGain]_vars

C3_Witness ==
    \E ch \in Channels :
        /\ AfterProcess
        /\ trace[ch].adjusted
        /\ trace[ch].scale > 0
        /\ \E p \in 1 .. Len(main_filter_[ch].H) : main_filter_[ch].H[p] # 0

CorrectionScalesConsistently ==
    call'.op = "Process" =>
        \A ch \in Channels :
            trace'[ch].adjusted =>
                LET f == trace'[ch].scale
                    y == trace'[ch].y
                    X == trace'[ch].X
                    s_main_before == FilterOutput(main_filter_[ch], X)
                    s_shadow == FilterOutput(shadow_filter_[ch], X)
                IN  /\ ScaledBy(main_filter_'[ch].H, main_filter_[ch].H, f)
                    /\ ScaledBy(trace'[ch].h_scaled,
                                main_impulse_response_[ch], f)
                    /\ outputs'[ch].s_main = ScaleVal(s_main_before, f)
                    /\ trace'[ch].e_main_unclamped =
                           y - ScaleVal(s_main_before, f)
                    /\ outputs'[ch].s_shadow = s_shadow
                    /\ outputs'[ch].e_shadow = y - s_shadow

\* C4: on a correction block with factor f the main filter's coefficients,
\* the cached impulse response and s_main are all scaled by f, the main
\* residual before the clamp is y - f * s_main_before, and e_shadow and
\* s_shadow are those of the unscaled shadow prediction.
C4_CorrectionScalesConsistently == [][CorrectionScalesConsistently]_vars

C4_Witness ==
    \E ch \in Channels :
        /\ AfterProcess
        /\ trace[ch].adjusted
        /\ outputs[ch].s_main # 0
        /\ outputs[ch].s_main # trace[ch].s_main_filter
        /\ outputs[ch].e_shadow # trace[ch].e_main_unclamped

\* C5: after every Process call the returned e_main of every channel lies
\* in [-32768, 32767].
C5_OutputClamped ==
    \A ch \in Channels :
        /\ outputs[ch].e_main >= kClampMin
        /\ outputs[ch].e_main <= kClampMax

C5_Witness ==
    \E ch \in Channels :
        /\ AfterProcess
        /\ trace[ch].e_main_unclamped < kClampMin
        /\ outputs[ch].e_main = kClampMin

----------------------------------------------------------------------------
(* Properties of HandleEchoPathChange and ExitInitialState *)

AfterDelayChange ==
    call.op = "HandleEchoPathChange" /\ call.delay_change # "kNone"

AllZero(H) == \A p \in 1 .. Len(H) : H[p] = 0

\* C6: after HandleEchoPathChange with a delay change every channel's main
\* and shadow filter have their initial partition count, all their
\* coefficients are zero, and both gain computers have the initial tuning,
\* applied with immediate effect.
C6_DelayChangeResets ==
    AfterDelayChange =>
        \A ch \in Channels :
            /\ SizePartitions(main_filter_[ch]) = main_initial_length_blocks
            /\ SizePartitions(shadow_filter_[ch]) =
                   shadow_initial_length_blocks
            /\ AllZero(main_filter_[ch].H)
            /\ AllZero(shadow_filter_[ch].H)
            /\ G_main_[ch].config = "initial" /\ G_main_[ch].immediate
            /\ G_shadow_[ch].config = "initial" /\ G_shadow_[ch].immediate

\* reached from a converged configuration whose gradual size change was
\* under way, with the filters adapted before
C6_Witness ==
    /\ AfterDelayChange
    /\ \E ch \in Channels :
           /\ shadow_filter_[ch].size_change_counter_ > 0
           /\ ~AllZero(main_impulse_response_[ch])

GainOnlyChange ==
    (call'.op = "HandleEchoPathChange" /\ call'.delay_change = "kNone") =>
        /\ UNCHANGED << main_filter_, shadow_filter_, G_shadow_,
                        filter_misadjustment_estimator_,
                        poor_shadow_filter_counter_,
                        main_frequency_response_, main_impulse_response_,
                        outputs >>
        /\ \A ch \in Channels :
               /\ G_main_'[ch].config = G_main_[ch].config
               /\ G_main_'[ch].immediate = G_main_[ch].immediate
               /\ call'.gain_change => G_main_'[ch].echo_path = "gain"
        /\ ~call'.gain_change => UNCHANGED G_main_

\* C7: HandleEchoPathChange with gain_change and no delay change notifies
\* the main gain computers and changes nothing else (filters, partition
\* counts, shadow gain computers, configuration, estimators, poor-shadow
\* counters); with neither flag set it changes nothing.
C7_GainOnlyChange == [][GainOnlyChange]_vars

C7_Witness ==
    /\ call.op = "HandleEchoPathChange"
    /\ call.delay_change = "kNone"
    /\ call.gain_change
    /\ \E ch \in Channels :
           /\ G_main_[ch].echo_path = "gain"
           /\ G_main_[ch].config = "converged"
           /\ ~AllZero(main_filter_[ch].H)
           /\ filter_misadjustment_estimator_[ch].y2_acum_ > 0

EstimatorResetOnlyByReset ==
    /\ call'.op = "HandleEchoPathChange" =>
           UNCHANGED filter_misadjustment_estimator_
    /\ call'.op = "Process" =>
           \A ch \in Channels :
               trace'[ch].adjusted =>
                   filter_misadjustment_estimator_'[ch] = ZeroEstimator

\* C8 (as amended): the estimator state of a channel is set to zero by the
\* explicit Reset after a correction; HandleEchoPathChange, with or without
\* a delay change, leaves the estimator state of every channel as it was.
C8_EchoPathChangeKeepsEstimator == [][EstimatorResetOnlyByReset]_vars

C8_Witness ==
    /\ AfterDelayChange
    /\ \E ch \in Channels :
           /\ filter_misadjustment_estimator_[ch].n_blocks_acum_ > 0
           /\ filter_misadjustment_estimator_[ch].e2_acum_ > 0

\* C8 (as stated): after an echo-path change handled by
\* HandleEchoPathChange the estimator state of every channel is zero.
C8_EchoPathChangeZeroesEstimator ==
    AfterDelayChange =>
        \A ch \in Channels :
            filter_misadjustment_estimator_[ch] = ZeroEstimator

InitialMode(ch) ==
    /\ G_main_[ch].config = "initial"
    /\ G_shadow_[ch].config = "initial"
    /\ main_filter_[ch].target_size_partitions_ = main_initial_length_blocks
    /\ shadow_filter_[ch].target_size_partitions_ =
           shadow_initial_length_blocks

ConvergedMode(ch) ==
    /\ G_main_[ch].config = "converged"
    /\ G_shadow_[ch].config = "converged"
    /\ main_filter_[ch].target_size_partitions_ = main_length_blocks
    /\ shadow_filter_[ch].target_size_partitions_ = shadow_length_blocks

\* ExitInitialState asks for the converged lengths without forcing them
GradualChangeAsked(f1, f0) ==
    /\ f1.size_change_counter_ = config_change_duration_blocks
    /\ f1.current_size_partitions_ = f0.current_size_partitions_
    /\ f1.H = f0.H

ModeStep ==
    \A ch \in Channels :
        /\ InitialMode(ch)' # ConvergedMode(ch)'
        /\ (InitialMode(ch) /\ ConvergedMode(ch)') =>
               call'.op = "ExitInitialState"
        /\ (ConvergedMode(ch) /\ InitialMode(ch)') =>
               (call'.op = "HandleEchoPathChange"
                /\ call'.delay_change # "kNone")
        /\ call'.op = "ExitInitialState" =>
               /\ ConvergedMode(ch)'
               /\ ~G_main_'[ch].immediate /\ ~G_shadow_'[ch].immediate
               /\ GradualChangeAsked(main_filter_'[ch], main_filter_[ch])
               /\ GradualChangeAsked(shadow_filter_'[ch], shadow_filter_[ch])
        /\ (call'.op = "HandleEchoPathChange"
            /\ call'.delay_change # "kNone") => InitialMode(ch)'
        /\ (call'.op = "Process"
            \/ (call'.op = "HandleEchoPathChange"
                /\ call'.delay_change = "kNone")) =>
               (InitialMode(ch)' <=> InitialMode(ch))

\* C9: the configuration starts in initial mode; only ExitInitialState moves
\* it to converged (gain computers given the converged config, filters asked
\* for the converged lengths by a gradual, non-forced change); only
\* HandleEchoPathChange with a delay change moves it back to initial;
\* Process and gain-only echo-path changes keep the mode.
C9_ModeMachine ==
    (\A ch \in Channels : InitialMode(ch)) /\ [][ModeStep]_vars

\* converged mode with the gradual change of the shadow length completed
C9_Witness ==
    /\ AfterProcess
    /\ \A ch \in Channels :
           /\ ConvergedMode(ch)
           /\ shadow_filter_[ch].size_change_counter_ = 0
           /\ SizePartitions(shadow_filter_[ch]) = shadow_length_blocks
           /\ SizePartitions(shadow_filter_[ch]) #
                  shadow_initial_length_blocks

----------------------------------------------------------------------------
(* Properties of the FilterMisadjustmentEstimator *)

BelowNoiseFloorWindow ==
    call'.op = "Update" =>
        \A ch \in Channels :
            (trace'[ch].window /\ trace'[ch].y2_window <= kNoiseFloor) =>
                /\ filter_misadjustment_estimator_'[ch].inv_misadjustment_ =
                       filter_misadjustment_estimator_[ch].inv_misadjustment_
                /\ filter_misadjustment_estimator_'[ch].overhang_ =
                       filter_misadjustment_estimator_[ch].overhang_
                /\ ~IsAdjustmentNeeded(filter_misadjustment_estimator_'[ch])

\* C10: an Update that completes a window whose accumulated y2 does not
\* exceed the noise floor leaves the smoothed inverse misadjustment and the
\* overhang as they were, whatever the accumulated e2, and
\* IsAdjustmentNeeded is false after it.
C10_BelowNoiseFloorWindow == [][BelowNoiseFloorWindow]_vars

C10_Witness ==
    /\ call.op = "Update"
    /\ \E ch \in Channels :
           /\ trace[ch].window
           /\ trace[ch].y2_window <= kNoiseFloor
           /\ trace[ch].e2_window > kDivergenceThreshold
           /\ filter_misadjustment_estimator_[ch].inv_misadjustment_ > 0
           /\ filter_misadjustment_estimator_[ch].overhang_ > 0

Estimator(ch) == filter_misadjustment_estimator_[ch]

AfterUpdate == call.op = "Update"

\* a window completed by the last Update with y2 above the noise floor
EvaluatedWindow(ch) ==
    AfterUpdate /\ trace[ch].window /\ trace[ch].y2_window > kNoiseFloor

WindowCycle ==
    /\ \A ch \in Channels : Estimator(ch)'.n_blocks_acum_ \in 0 .. 3
    /\ call'.op = "Reset" =>
           \A ch \in Channels :
               trace'[ch].adjusted => Estimator(ch)'.n_blocks_acum_ = 0
    /\ call'.op = "Update" =>
           \A ch \in Channels :
               LET est == Estimator(ch)
                   n == est.n_blocks_acum_
               IN  /\ trace'[ch].window <=> (n = 3)
                   /\ n < 3 =>
                          /\ Estimator(ch)'.n_blocks_acum_ = n + 1
                          /\ Estimator(ch)'.e2_acum_ =
                                 est.e2_acum_ + outputs'[ch].e2_main
                          /\ Estimator(ch)'.y2_acum_ =
                                 est.y2_acum_ + outputs'[ch].y2
                          /\ Estimator(ch)'.inv_misadjustment_ =
                                 est.inv_misadjustment_
                          /\ Estimator(ch)'.overhang_ = est.overhang_
                   /\ n = 3 =>
                          /\ Estimator(ch)'.n_blocks_acum_ = 0
                          /\ Estimator(ch)'.e2_acum_ = 0
                          /\ Estimator(ch)'.y2_acum_ = 0

\* C11: the estimator evaluates on the Update that finds the block counter
\* at 3, that is on every 4th Update since construction or the last Reset;
\* that Update sets e2_acum, y2_acum and the block counter to zero whatever
\* the window's energies, so the block counter is in 0..3 between calls;
\* the other Updates add the block's energies, count the block, and leave
\* the smoothed factor and the overhang as they were.
C11_WindowCycle ==
    (\A ch \in Channels : Estimator(ch).n_blocks_acum_ = 0)
    /\ [][WindowCycle]_vars

\* a third or later window, below the noise floor, completed with a
\* smoothed factor kept from an earlier window
C11_Witness ==
    /\ AfterUpdate
    /\ calls >= 12
    /\ \E ch \in Channels :
           /\ trace[ch].window
           /\ trace[ch].y2_window <= kNoiseFloor
           /\ trace[ch].e2_window > 0
           /\ Estimator(ch).inv_misadjustment_ > 0
           /\ Estimator(ch).e2_acum_ = 0
           /\ Estimator(ch).y2_acum_ = 0

OverhangStep ==
    /\ \A ch \in Channels :
           Estimator(ch)'.overhang_ >= 0 /\ Estimator(ch)'.overhang_ <= 4
    /\ call'.op = "Update" =>
           \A ch \in Channels :
               (trace'[ch].window /\ trace'[ch].y2_window > kNoiseFloor) =>
                   Estimator(ch)'.overhang_ =
                       IF trace'[ch].e2_window > kDivergenceThreshold THEN 4
                       ELSE IF Estimator(ch).overhang_ > 0
                            THEN Estimator(ch).overhang_ - 1 ELSE 0

\* C12: on a completed window whose accumulated y2 exceeds the noise floor
\* the overhang becomes 4 if the accumulated e2 exceeds the divergence
\* threshold, and otherwise one less than it was but not less than zero;
\* the overhang is in 0..4 in every reachable state.
C12_Overhang ==
    (\A ch \in Channels : Estimator(ch).overhang_ = 0)
    /\ [][OverhangStep]_vars

\* a window without divergence that finds the overhang at zero and leaves
\* it there, after the overhang of an earlier divergence has run out
C12_Witness ==
    \E ch \in Channels :
        /\ EvaluatedWindow(ch)
        /\ trace[ch].e2_window <= kDivergenceThreshold
        /\ trace[ch].overhang_before = 0
        /\ Estimator(ch).overhang_ = 0
        /\ Estimator(ch).inv_misadjustment_ > 0

SmoothingStep ==
    /\ \A ch \in Channels : Estimator(ch)'.inv_misadjustment_ >= 0
    /\ call'.op = "Update" =>
           \A ch \in Channels :
               (trace'[ch].window /\ trace'[ch].y2_window > kNoiseFloor) =>
                   LET old == Estimator(ch).inv_misadjustment_
                       ratio == (trace'[ch].e2_window * InvQ)
                                \div trace'[ch].y2_window
                   IN  Estimator(ch)'.inv_misadjustment_ =
                           IF ratio < old \/ Estimator(ch)'.overhang_ > 0
                           THEN old + DivT(ratio - old, 10)
                           ELSE old

\* C13: on a completed window above the noise floor, with ratio the
\* accumulated e2 over the accumulated y2 and the overhang as updated for
\* this window, the smoothed estimate becomes old + 0.1 * (ratio - old) if
\* ratio < old or the overhang is positive, and stays as it was otherwise;
\* the estimate is never negative.
C13_Smoothing ==
    (\A ch \in Channels : Estimator(ch).inv_misadjustment_ = 0)
    /\ [][SmoothingStep]_vars

\* a window that arms the overhang from zero and raises the estimate, the
\* ratio being above the old estimate
C13_Witness ==
    \E ch \in Channels :
        /\ EvaluatedWindow(ch)
        /\ trace[ch].overhang_before = 0
        /\ Estimator(ch).overhang_ = 4
        /\ trace[ch].inv_before > 0
        /\ Estimator(ch).inv_misadjustment_ > trace[ch].inv_before

----------------------------------------------------------------------------
(* Determinism of Subtractor::Process *)

\* the render powers of the call, the arrays X2_main and X2_shadow_data
\* starting with uninit
ReplayRenderPowers(uninit) ==
    RenderPowers(trace'[0].X, SizePartitions(main_filter_[0]),
                 SizePartitions(shadow_filter_[0]), uninit)

\* the block replayed from the state before the call with the arguments of
\* the call
Replay(X2_main, X2_shadow) ==
    ForEachChannel(num_capture_channels_, trace'[0].X,
                   [ch \in Channels |-> trace'[ch].y], FALSE, FALSE,
                   X2_main, X2_shadow)

ProcessIsFunction ==
    call'.op = "Process" =>
        /\ \A uninit \in UninitializedVals :
               \E rp \in {ReplayRenderPowers(uninit)} :
                   \A ch \in Channels :
                       /\ trace'[ch].X2_main = rp.X2_main
                       /\ trace'[ch].X2_shadow = rp.X2_shadow
        /\ \E r \in {Replay(trace'[0].X2_main, trace'[0].X2_shadow)} :
               \A ch \in Channels :
                   /\ outputs'[ch] = r[ch + 1].output
                   /\ main_filter_'[ch] = r[ch + 1].main_filter
                   /\ shadow_filter_'[ch] = r[ch + 1].shadow_filter
                   /\ filter_misadjustment_estimator_'[ch] = r[ch + 1].estimator
                   /\ poor_shadow_filter_counter_'[ch] = r[ch + 1].counter
                   /\ main_frequency_response_'[ch] =
                          r[ch + 1].frequency_response
                   /\ main_impulse_response_'[ch] = r[ch + 1].impulse_response

\* C14: the SubtractorOutput of a Process call and the state it leaves are
\* a function of the state before the call and of the call's render and
\* capture blocks alone: the render powers given to the gain computers are
\* the same whatever the arrays declared without an initialiser held when
\* the call started, and the output and the state follow from them. Two
\* Subtractors constructed alike and given the same calls therefore produce
\* the same outputs and end in the same state.
C14_Deterministic == [][ProcessIsFunction]_vars

\* a block in which X2_shadow is read from the array X2_shadow_data and
\* moves the shadow filter
C14_Witness ==
    /\ AfterProcess
    /\ trace[0].X2_shadow_buffer = "X2_shadow_data"
    /\ trace[0].X2_shadow # 0
    /\ trace[0].G_shadow # 0
    /\ outputs[0].e_main # 0

----------------------------------------------------------------------------
(* Preconditions of Subtractor::Process *)

\* the output and the state of a channel after a block that was processed
\* to the end
FullyComputed(ch) ==
    /\ outputs'[ch].y2 = SqUnits(trace'[ch].y)
    /\ outputs'[ch].s_main + trace'[ch].e_main_unclamped = trace'[ch].y
    /\ outputs'[ch].e_main = SafeClamp(trace'[ch].e_main_unclamped)
    /\ outputs'[ch].s_shadow + outputs'[ch].e_shadow = trace'[ch].y
    /\ outputs'[ch].E2_main = SqUnits(outputs'[ch].E_main)
    /\ outputs'[ch].E2_shadow = SqUnits(outputs'[ch].e_shadow)
    /\ Estimator(ch)'.n_blocks_acum_ =
           IF trace'[ch].adjusted \/ trace'[ch].window THEN 0
           ELSE Estimator(ch).n_blocks_acum_ + 1
    /\ poor_shadow_filter_counter_'[ch] =
           IF trace'[ch].resync
              \/ ~(outputs'[ch].e2_main < outputs'[ch].e2_shadow) THEN 0
           ELSE poor_shadow_filter_counter_[ch] + 1

PreconditionsFatal ==
    /\ ~Terminated
    /\ call'.op = "Process" =>
           \A ch \in Channels :
               /\ Len(trace'[ch].capture_sizes) = num_capture_channels_
               /\ trace'[ch].capture_sizes[ch + 1] = kBlockSize
               /\ FullyComputed(ch)
    /\ Terminated' => UNCHANGED outputs

----------------------------------------------------------------------------
(* The diagnostic sink *)

----------------------------------------------------------------------------
(* Render powers *)

RenderPowersStep ==
    call'.op = "Process" =>
        LET size_main == SizePartitions(main_filter_[0])
            size_shadow == SizePartitions(shadow_filter_[0])
        IN  \A ch \in Channels :
                /\ trace'[ch].X2_main = SpectralSum(trace'[ch].X, size_main)
                /\ trace'[ch].X2_shadow = SpectralSum(trace'[ch].X, size_shadow)
                /\ size_main = size_shadow =>
                       /\ trace'[ch].spectral_sums = << size_main >>
                       /\ trace'[ch].X2_shadow_buffer = "X2_main"
                /\ size_main # size_shadow =>
                       /\ trace'[ch].spectral_sums =
                              << Min(size_main, size_shadow),
                                 Max(size_main, size_shadow) >>
                       /\ trace'[ch].X2_shadow_buffer = "X2_shadow_data"

\* C17: in every Process call the main gain computer is given the spectral
\* sum over the main filter's partition count and the shadow gain computer
\* the spectral sum over the shadow filter's partition count, whether the
\* counts are equal, the main filter is longer or the shadow filter is
\* longer; with equal counts one spectral sum is computed and X2_shadow is
\* the buffer X2_main.
C17_RenderPowers == [][RenderPowersStep]_vars

\* a block of a main filter grown past the shadow filter, whose two render
\* powers differ and move the main filter
C17_Witness ==
    /\ AfterProcess
    /\ trace[0].spectral_sums = << 2, 3 >>
    /\ trace[0].X2_main # trace[0].X2_shadow
    /\ trace[0].G_main # 0

----------------------------------------------------------------------------
(* Per-channel collections *)

PerChannel(collection) ==
    /\ DOMAIN collection = 0 .. num_capture_channels_ - 1
    /\ Cardinality(DOMAIN collection) = num_capture_channels_

----------------------------------------------------------------------------
(* Silent render *)

SilentRender(X) == \A p \in DOMAIN X : X[p] = 0

SilentRenderStep ==
    call'.op = "Process" =>
        \A ch \in Channels :
            SilentRender(trace'[ch].X) =>
                LET y == trace'[ch].y
                IN  /\ outputs'[ch].s_main = 0
                    /\ outputs'[ch].e_main =
                           IF y > 32767 THEN 32767
                           ELSE IF y < -32768 THEN -32768 ELSE y

\* C19 (as amended): if the render history has zero energy then, for every
\* channel, Process returns s_main all zero and e_main equal to the capture
\* block clamped to [-32768, 32767], which is the capture block exactly when
\* its samples lie in that range, whatever the estimator state and whether
\* or not a correction is applied in that block.
C19_SilentRender == [][SilentRenderStep]_vars

\* a correction made on a block whose render history is silent
C19_Witness ==
    \E ch \in Channels :
        /\ AfterProcess
        /\ SilentRender(trace[ch].X)
        /\ trace[ch].adjusted
        /\ trace[ch].y # 0
        /\ outputs[ch].e_main = trace[ch].y

SilentRenderExactStep ==
    call'.op = "Process" =>
        \A ch \in Channels :
            SilentRender(trace'[ch].X) =>
                /\ outputs'[ch].s_main = 0
                /\ outputs'[ch].e_main = trace'[ch].y

\* C19 (as stated): if the render history has zero energy, Process returns
\* e_main equal to the capture block exactly and s_main all zero.
C19_SilentRenderExact == [][SilentRenderExactStep]_vars

----------------------------------------------------------------------------
(* Energies *)

\* C20: for every block and every channel, whatever the input (silent,
\* audible, at the limit of the 16-bit range or above it), the returned
\* e2_main, e2_shadow and y2 are >= 0, and the estimator's accumulators
\* e2_acum and y2_acum are >= 0 in every reachable state.
C20_EnergiesNonNegative ==
    \A ch \in Channels :
        /\ outputs[ch].e2_main >= 0
        /\ outputs[ch].e2_shadow >= 0
        /\ outputs[ch].y2 >= 0
        /\ Estimator(ch).e2_acum_ >= 0
        /\ Estimator(ch).y2_acum_ >= 0

\* a capture block of maximal amplitude, accumulated by the estimator
C20_Witness ==
    \E ch \in Channels :
        /\ AfterProcess
        /\ trace[ch].y = 32767
        /\ outputs[ch].y2 > 0
        /\ outputs[ch].e2_main > 0
        /\ Estimator(ch).e2_acum_ >= outputs[ch].e2_main
        /\ Estimator(ch).y2_acum_ >= outputs[ch].y2
        /\ Estimator(ch).n_blocks_acum_ > 1

----------------------------------------------------------------------------
(* Simulcast layer sizes and formats *)

AfterGetNormalSimulcastLayers ==
    /\ simulcast_result.op = "GetNormalSimulcastLayers"
    /\ simulcast_result.result.status = "returned"

\* m is the largest multiple of unit that is <= size.
LargestMultipleAtMost(m, unit, size) ==
    /\ m % unit = 0
    /\ m <= size
    /\ size - m < unit

\* C21: with no size-normalization experiment active, the layers that
\* GetNormalSimulcastLayers returns for n layers have a top layer whose width
\* and height are the largest multiples of 2^(n-1) that are <= the given
\* width and height, and each lower layer s has exactly the top layer's width
\* and height divided by 2^(n-1-s), no halving leaving a remainder.
C21_LayerSizes ==
    (AfterGetNormalSimulcastLayers
     /\ simulcast_args.experimental_base2_exponent = {}) =>
        LET n == simulcast_args.layer_count
            layers == simulcast_result.result.layers
        IN  /\ DOMAIN layers = 0 .. n - 1
            /\ LargestMultipleAtMost(layers[n - 1].width, 2 ^ (n - 1),
                                     simulcast_args.width)
            /\ LargestMultipleAtMost(layers[n - 1].height, 2 ^ (n - 1),
                                     simulcast_args.height)
            /\ \A s \in 0 .. n - 1 :
                   /\ layers[s].width * 2 ^ (n - 1 - s) = layers[n - 1].width
                   /\ layers[s].height * 2 ^ (n - 1 - s) = layers[n - 1].height

\* three layers for a frame whose width and height are not multiples of 4
C21_Witness ==
    /\ AfterGetNormalSimulcastLayers
    /\ simulcast_args.experimental_base2_exponent = {}
    /\ simulcast_args.layer_count = 3
    /\ simulcast_args.width = 1922
    /\ simulcast_args.height = 1083
    /\ simulcast_result.result.layers[2].width = 1920
    /\ simulcast_result.result.layers[2].height = 1080
    /\ simulcast_result.result.layers[0].width = 480
    /\ simulcast_result.result.layers[0].height = 270

\* pixels <= width * height, for width >= 0 and height >= 0, without
\* computing the product
AtMostProduct(pixels, width, height) ==
    IF width = 0 THEN pixels <= 0
    ELSE (pixels + width - 1) \div width <= height

\* C22: kSimulcastFormats is ordered by strictly decreasing pixel count and
\* ends with a 0x0 entry, and for all width >= 0 and height >= 0
\* FindSimulcastFormatIndex returns an index in 0..6 that is the first table
\* entry whose pixel count is <= width * height; RTC_NOTREACHED is never
\* reached.
C22_FormatIndexFound ==
    /\ \A i, j \in DOMAIN kSimulcastFormats :
           i < j => FormatPixels(i) > FormatPixels(j)
    /\ kSimulcastFormats[NumSimulcastFormats - 1].width = 0
    /\ kSimulcastFormats[NumSimulcastFormats - 1].height = 0
    /\ (/\ simulcast_result.op = "FindSimulcastFormatIndex"
        /\ simulcast_args.width >= 0
        /\ simulcast_args.height >= 0) =>
           LET index == simulcast_result.result.index
           IN  /\ simulcast_result.result.status = "returned"
               /\ index \in 0 .. 6
               /\ AtMostProduct(FormatPixels(index), simulcast_args.width,
                                simulcast_args.height)
               /\ \A i \in 0 .. index - 1 :
                      ~AtMostProduct(FormatPixels(i), simulcast_args.width,
                                     simulcast_args.height)

----------------------------------------------------------------------------
(* The counter of blocks on which the shadow filter is the worse one *)

PoorShadowCounterStep ==
    \A ch \in Channels :
        /\ poor_shadow_filter_counter_'[ch] \in 0 .. kPoorShadowLimit - 1
        /\ call'.op # "Process" =>
               poor_shadow_filter_counter_'[ch] = poor_shadow_filter_counter_[ch]
        /\ call'.op = "Process" =>
               LET poor == outputs'[ch].e2_main < outputs'[ch].e2_shadow
                   count == poor_shadow_filter_counter_[ch] + 1
               IN  /\ ~poor => poor_shadow_filter_counter_'[ch] = 0
                   /\ (poor /\ count < kPoorShadowLimit) =>
                          poor_shadow_filter_counter_'[ch] = count
                   /\ (poor /\ count = kPoorShadowLimit) =>
                          poor_shadow_filter_counter_'[ch] = 0
                   /\ trace'[ch].resync <=> (poor /\ count = kPoorShadowLimit)
                   /\ trace'[ch].resync =>
                          poor_shadow_filter_counter_[ch] = kPoorShadowLimit - 1

\* C23: the poor-shadow counter counts consecutive blocks only: a block with
\* e2_main >= e2_shadow sets the channel's counter to 0, a block with
\* e2_main < e2_shadow increments it, and reaching 5 triggers the resync and
\* sets it back to 0; no other call changes it. Hence after every call each
\* counter is in 0..4, and a resync happens only on a block entered with the
\* counter at 4, that is after 4 blocks of the channel without a resync.
C23_PoorShadowCounter == [][PoorShadowCounterStep]_vars

\* four poor blocks in a row, not yet a resync
C23_Witness ==
    \E ch \in Channels :
        /\ AfterProcess
        /\ poor_shadow_filter_counter_[ch] = kPoorShadowLimit - 1
        /\ outputs[ch].e2_main < outputs[ch].e2_shadow
        /\ ~trace[ch].resync

----------------------------------------------------------------------------
(* The shadow filter's update gain *)

\* the shadow filter that the block's shadow adaptation starts from
ShadowBeforeAdapt(ch) ==
    IF trace'[ch].resync
    THEN SetFilter(shadow_filter_[ch], GetFilter(main_filter_'[ch]))
    ELSE shadow_filter_[ch]

\* the error spectrum that the claim names for the block
ShadowGainError(ch) ==
    IF trace'[ch].resync THEN outputs'[ch].E_main
    ELSE ZeroPaddedFft(outputs'[ch].e_shadow)

ShadowGainStep ==
    call'.op = "Process" =>
        \A ch \in Channels :
            /\ trace'[ch].G_shadow =
                   ShadowGainCompute(trace'[ch].X2_shadow, FALSE,
                                     ShadowGainError(ch),
                                     SizePartitions(ShadowBeforeAdapt(ch)),
                                     FALSE)
            /\ shadow_filter_'[ch] =
                   Adapt(ShadowBeforeAdapt(ch), trace'[ch].X,
                         trace'[ch].G_shadow)

\* C24: the shadow update gain is computed from the main filter's error
\* spectrum E_main exactly on resync blocks and from the shadow filter's own
\* error spectrum E_shadow on every other block; in both cases the shadow
\* filter is adapted exactly once with that gain.
C24_ShadowGain == [][ShadowGainStep]_vars

\* a resync block on which the two error spectra give different gains
C24_Witness ==
    \E ch \in Channels :
        /\ AfterProcess
        /\ trace[ch].resync
        /\ trace[ch].G_shadow =
               ShadowGainCompute(trace[ch].X2_shadow, FALSE,
                                 outputs[ch].E_main,
                                 SizePartitions(shadow_filter_[ch]), FALSE)
        /\ trace[ch].G_shadow #
               ShadowGainCompute(trace[ch].X2_shadow, FALSE,
                                 ZeroPaddedFft(outputs[ch].e_shadow),
                                 SizePartitions(shadow_filter_[ch]), FALSE)

----------------------------------------------------------------------------
(* Order of the main filter's update and the shadow filter's resync *)

\* the main filter after the block's rescale, if a correction applies, and
\* its adaptation
MainAfterUpdate(ch) ==
    Adapt(IF trace'[ch].adjusted
          THEN ScaleFilter(main_filter_[ch], trace'[ch].scale)
          ELSE main_filter_[ch],
          trace'[ch].X, trace'[ch].G_main)

ResyncOrderStep ==
    call'.op = "Process" =>
        \A ch \in Channels :
            /\ main_filter_'[ch] = MainAfterUpdate(ch)
            /\ trace'[ch].resync =>
                   shadow_filter_'[ch] =
                       Adapt(SetFilter(shadow_filter_[ch],
                                       GetFilter(MainAfterUpdate(ch))),
                             trace'[ch].X, trace'[ch].G_shadow)

\* C25: within one block the main filter is rescaled (if a correction
\* applies) and adapted before the shadow resync, so the coefficients copied
\* into the shadow filter are the main filter's coefficients after this
\* block's rescale and adaptation, and the shadow filter's own adaptation is
\* applied after the copy.
C25_ResyncAfterMainUpdate == [][ResyncOrderStep]_vars

\* a resync on a block on which the main filter's coefficients were changed
C25_Witness ==
    \E ch \in Channels :
        /\ AfterProcess
        /\ trace[ch].resync
        /\ trace[ch].G_main # 0
        /\ trace[ch].X[1] # 0
        /\ trace[ch].G_shadow # 0
        /\ shadow_filter_[ch].H[1] # main_filter_[ch].H[1]

----------------------------------------------------------------------------
(* Blocks between two corrections *)

\* a correction is applied: the estimator signals an adjustment after an
\* Update, or has just been reset for it
CorrectionApplied(ch) ==
    \/ IsAdjustmentNeeded(Estimator(ch))
    \/ (call.op = "Reset" /\ trace[ch].adjusted)

\* C26: a correction can be applied only on a block whose Update completes a
\* 4-block window, and each correction resets the estimator: counting the
\* channel's blocks from construction, the blocks accumulated in the open
\* window are the block count modulo 4, with or without corrections, and a
\* correction is applied only when the block count is a positive multiple
\* of 4, so two corrections on the same channel are at least 4 blocks apart.
C26_CorrectionsApart ==
    \A ch \in Channels :
        /\ Estimator(ch).n_blocks_acum_ = calls % n_blocks_
        /\ CorrectionApplied(ch) =>
               /\ calls % n_blocks_ = 0
               /\ calls >= n_blocks_
        /\ IsAdjustmentNeeded(Estimator(ch)) =>
               (call.op = "Update" /\ trace[ch].window)
        /\ (call.op = "Reset" /\ trace[ch].adjusted) =>
               Estimator(ch) = ZeroEstimator

\* the estimator reset for a correction on the 8th block
C26_Witness ==
    \E ch \in Channels :
        /\ call.op = "Reset"
        /\ trace[ch].adjusted
        /\ calls = 2 * n_blocks_

----------------------------------------------------------------------------
(* Length of the overhang hold *)

\* The overhang counts the windows of the hold: 4 after the arming window,
\* one less after each further window above the noise floor that does not
\* re-arm. A window is one of the 4 of the hold if it arms the overhang or
\* finds it at 2 or more.
OverhangHoldStep ==
    call'.op = "Update" =>
        \A ch \in Channels :
            LET before == Estimator(ch).overhang_
                old == Estimator(ch).inv_misadjustment_
                e2 == trace'[ch].e2_window
                y2 == trace'[ch].y2_window
                armed == e2 > kDivergenceThreshold
                ratio == (e2 * InvQ) \div y2
                smoothed == old + DivT(ratio - old, 10)
            IN  /\ (trace'[ch].window /\ y2 > kNoiseFloor) =>
                       /\ armed => Estimator(ch)'.overhang_ = 4
                       /\ (~armed /\ before > 0) =>
                              Estimator(ch)'.overhang_ = before - 1
                       /\ (armed \/ before >= 2) =>
                              Estimator(ch)'.inv_misadjustment_ = smoothed
                       /\ (~armed /\ before <= 1) =>
                              Estimator(ch)'.inv_misadjustment_ =
                                  IF ratio < old THEN smoothed ELSE old
                /\ ~(trace'[ch].window /\ y2 > kNoiseFloor) =>
                       /\ Estimator(ch)'.overhang_ = before
                       /\ Estimator(ch)'.inv_misadjustment_ = old

\* C27: the overhang hold lasts 4 evaluation windows: after a window arms
\* the overhang, the smoothed estimate is updated unconditionally in 4
\* consecutive above-noise-floor windows counting the arming window,
\* provided none of them re-arms, and the forced update stops after that.
C27_OverhangHold == [][OverhangHoldStep]_vars

\* the fifth window above the noise floor since the arming one: its ratio is
\* above the estimate, and the estimate is left as it was
C27_Witness ==
    \E ch \in Channels :
        /\ EvaluatedWindow(ch)
        /\ trace[ch].overhang_before = 1
        /\ trace[ch].e2_window <= kDivergenceThreshold
        /\ (trace[ch].e2_window * InvQ) \div trace[ch].y2_window
               > trace[ch].inv_before + 10
        /\ Estimator(ch).overhang_ = 0
        /\ Estimator(ch).inv_misadjustment_ = trace[ch].inv_before

----------------------------------------------------------------------------
(* The estimate leaves zero only through a divergence *)

\* the call completes a window above the noise floor with divergence
DivergenceWindow(ch) ==
    /\ call'.op = "Update"
    /\ trace'[ch].window
    /\ trace'[ch].y2_window > kNoiseFloor
    /\ trace'[ch].e2_window > kDivergenceThreshold

EstimateStaysZeroStep ==
    \A ch \in Channels :
        (/\ Estimator(ch).inv_misadjustment_ = 0
         /\ Estimator(ch).overhang_ = 0
         /\ ~DivergenceWindow(ch)) =>
            /\ Estimator(ch)'.inv_misadjustment_ = 0
            /\ Estimator(ch)'.overhang_ = 0

\* C28: from the constructed or Reset state (estimate 0, overhang 0) the
\* estimate stays exactly 0, and the overhang with it, for any sequence of
\* Updates until a window whose accumulated y2 exceeds the noise floor and
\* whose accumulated e2 exceeds the divergence threshold; a ratio alone can
\* never raise the estimate from 0.
C28_EstimateStaysZero ==
    (\A ch \in Channels :
         /\ Estimator(ch).inv_misadjustment_ = 0
         /\ Estimator(ch).overhang_ = 0)
    /\ [][EstimateStaysZeroStep]_vars

\* the second or a later window, above the noise floor with a ratio above 1
\* and no divergence, leaves the estimate at 0
C28_Witness ==
    \E ch \in Channels :
        /\ EvaluatedWindow(ch)
        /\ calls >= 2 * n_blocks_
        /\ trace[ch].e2_window > trace[ch].y2_window
        /\ trace[ch].e2_window <= kDivergenceThreshold
        /\ trace[ch].inv_before = 0
        /\ trace[ch].overhang_before = 0
        /\ Estimator(ch).inv_misadjustment_ = 0
        /\ Estimator(ch).overhang_ = 0

----------------------------------------------------------------------------
(* The block's energies are those of the residuals before any correction *)

\* the main and shadow residuals formed from the filters' outputs, before
\* any rescale and before the clamp
ResidualBeforeCorrection(f, ch) ==
    PredictionError(FilterOutput(f, trace'[ch].X), trace'[ch].y).e

EnergiesStep ==
    call'.op = "Process" =>
        \A ch \in Channels :
            LET e2_main ==
                    SqUnits(ResidualBeforeCorrection(main_filter_[ch], ch))
                e2_shadow ==
                    SqUnits(ResidualBeforeCorrection(shadow_filter_[ch], ch))
                y2 == SqUnits(trace'[ch].y)
                est == Estimator(ch)
            IN  /\ outputs'[ch].e2_main = e2_main
                /\ outputs'[ch].e2_shadow = e2_shadow
                /\ outputs'[ch].y2 = y2
                \* the estimator's Update is given these values
                /\ trace'[ch].window =>
                       /\ trace'[ch].e2_window = est.e2_acum_ + e2_main
                       /\ trace'[ch].y2_window = est.y2_acum_ + y2
                /\ ~trace'[ch].window =>
                       /\ Estimator(ch)'.e2_acum_ = est.e2_acum_ + e2_main
                       /\ Estimator(ch)'.y2_acum_ = est.y2_acum_ + y2
                \* and so is the comparison of the poor-shadow counter
                /\ (poor_shadow_filter_counter_'[ch] # 0 \/ trace'[ch].resync)
                       <=> e2_main < e2_shadow

\* C29: e2_main, e2_shadow and y2 are computed from the residuals before any
\* rescale and before the clamp; the misadjustment Update and the
\* poor-shadow comparison both use these pre-correction values, and the
\* returned e2_main is not recomputed after the rescale or the clamp.
C29_EnergiesBeforeCorrection == [][EnergiesStep]_vars

\* a correction block: the returned e2_main is the energy of the residual
\* before the rescale, the residual after it having another energy
C29_Witness ==
    \E ch \in Channels :
        /\ AfterProcess
        /\ trace[ch].adjusted
        /\ outputs[ch].e2_main =
               SqUnits(trace[ch].y - trace[ch].s_main_filter)
        /\ outputs[ch].e2_main # SqUnits(trace[ch].e_main_unclamped)

----------------------------------------------------------------------------
(* The cached frequency response of the main filter *)

FrequencyResponseStep ==
    call'.op = "Process" =>
        \A ch \in Channels :
            \* recomputed from the main filter as adapted in this block
            /\ main_filter_'[ch] = MainAfterUpdate(ch)
            /\ \A p \in 1 .. Len(main_frequency_response_'[ch]) :
                   p <= Len(main_filter_'[ch].H) =>
                       main_frequency_response_'[ch][p] =
                           SqUnits(main_filter_'[ch].H[p])
            \* the ERL of the main gain is that of the response cached by
            \* the block before
            /\ trace'[ch].main_gain_computed <=> ~trace'[ch].adjusted
            /\ ~trace'[ch].adjusted =>
                   trace'[ch].erl = SumSeq(main_frequency_response_[ch])

\* C30: the main filter's frequency response is recomputed every block for
\* every channel, including blocks where the correction was applied, always
\* after that block's main-filter Adapt; the ERL used for the main gain on a
\* non-correction block is derived from the frequency response cached at the
\* end of the previous block (all zero on the first block after
\* construction).
C30_FrequencyResponse ==
    (\A ch \in Channels :
         \A p \in 1 .. Len(main_frequency_response_[ch]) :
             main_frequency_response_[ch][p] = 0)
    /\ [][FrequencyResponseStep]_vars

\* a block without correction whose ERL, that of the response of the block
\* before, is positive and is not the ERL of the response it leaves
C30_Witness ==
    \E ch \in Channels :
        /\ AfterProcess
        /\ trace[ch].main_gain_computed
        /\ trace[ch].erl > 0
        /\ trace[ch].erl # SumSeq(main_frequency_response_[ch])
        /\ trace[ch].G_main # 0


----------------------------------------------------------------------------
(* C31: all channels' filters have channel 0's partition counts *)

SamePartitionCounts ==
    \A ch \in Channels :
        /\ SizePartitions(main_filter_[ch]) = SizePartitions(main_filter_[0])
        /\ SizePartitions(shadow_filter_[ch])
               = SizePartitions(shadow_filter_[0])

\* the partition counts whose render power a channel's filters need
PartitionCountsOf(ch) ==
    LET size_main == SizePartitions(main_filter_[ch])
        size_shadow == SizePartitions(shadow_filter_[ch])
    IN  IF size_main = size_shadow THEN << size_main >>
        ELSE << Min(size_main, size_shadow), Max(size_main, size_shadow) >>

PartitionCountsStep ==
    /\ SamePartitionCounts'
    /\ AfterProcess' =>
           \A ch \in Channels : trace'[ch].spectral_sums = PartitionCountsOf(ch)

\* C31: after every Process, HandleEchoPathChange and ExitInitialState call
\* every channel's main filter has as many partitions as channel 0's main
\* filter and every channel's shadow filter as many as channel 0's shadow
\* filter, and the render powers a Process computes are sums over the
\* partition counts of every channel's own filters.
C31_SamePartitionCounts == [][PartitionCountsStep]_vars

\* Two channels whose filters hold different coefficients after a Process
\* that moved the main or the shadow filter away from its initial length.
C31_Witness ==
    /\ num_capture_channels_ = 2
    /\ AfterProcess
    /\ main_filter_[0].H # main_filter_[1].H
    /\ \/ SizePartitions(main_filter_[1]) # main_initial_length_blocks
       \/ SizePartitions(shadow_filter_[1]) # shadow_initial_length_blocks


----------------------------------------------------------------------------
(* C32: the channels are independent within Process *)

\* the loop body of channel ch alone, on the state the channel had before
\* the call, its own capture block and the shared render powers
OwnChannel(ch) ==
    ProcessChannel(ch, trace'[ch].X, trace'[ch].y, FALSE, FALSE,
                   trace'[ch].X2_main, trace'[ch].X2_shadow)

\* what the whole loop leaves for channel ch when another channel is given
\* the capture block alt instead of its own
WithOtherCapture(ch, other, alt) ==
    ForEachChannel(num_capture_channels_, trace'[ch].X,
                   [c \in Channels |-> IF c = other THEN alt
                                       ELSE trace'[c].y],
                   FALSE, FALSE, trace'[ch].X2_main, trace'[ch].X2_shadow)[ch + 1]

ChannelWrittenBy(ch, r) ==
    /\ outputs'[ch] = r.output
    /\ main_filter_'[ch] = r.main_filter
    /\ shadow_filter_'[ch] = r.shadow_filter
    /\ filter_misadjustment_estimator_'[ch] = r.estimator
    /\ poor_shadow_filter_counter_'[ch] = r.counter
    /\ main_frequency_response_'[ch] = r.frequency_response
    /\ main_impulse_response_'[ch] = r.impulse_response

ChannelsIndependentStep ==
    AfterProcess' =>
        \A ch \in Channels :
            /\ \E own \in {OwnChannel(ch)} : ChannelWrittenBy(ch, own)
            /\ G_main_'[ch] = G_main_[ch] /\ G_shadow_'[ch] = G_shadow_[ch]
            \* a channel that is not corrected is not scaled and its
            \* estimator is not reset, whatever the other channels do
            /\ ~trace'[ch].adjusted =>
                   /\ trace'[ch].h_scaled = main_impulse_response_[ch]
                   /\ main_filter_'[ch] =
                          Adapt(main_filter_[ch], trace'[ch].X,
                                trace'[ch].G_main)
                   /\ outputs'[ch].s_main = trace'[ch].s_main_filter
            \* a correction or resync of another channel: with any other
            \* capture block for that channel, this channel is left the same
            /\ \A other \in Channels \ {ch} :
                   trace'[other].adjusted \/ trace'[other].resync =>
                       \A alt \in CaptureVals :
                           \E r \in {WithOtherCapture(ch, other, alt)} :
                               ChannelWrittenBy(ch, r)

----------------------------------------------------------------------------
(* Simulcast configurations and bitrates *)

\* a GetSimulcastConfig call whose arguments satisfy its RTC_DCHECK
AfterGetSimulcastConfig ==
    /\ simulcast_result.op = "GetSimulcastConfig"
    /\ GetSimulcastConfigChecks(
           simulcast_args.layer_count,
           simulcast_result.is_screenshare_with_conference_mode)

\* C33: a GetSimulcastConfig call with max_layers > 1 or
\* is_screenshare_with_conference_mode, max_layers of 0 or 1 in screenshare
\* mode and counts reduced by LimitSimulcastLayerCount included, reads and
\* writes no layers[i] outside the vector, and the vector it returns is not
\* empty.
C33_ConfigWithinBounds ==
    AfterGetSimulcastConfig =>
        /\ simulcast_result.result.status \notin {"crash", "corrupted"}
        /\ simulcast_result.result.status = "returned" =>
               DOMAIN simulcast_result.result.layers # {}


AfterGetScreenshareLayers ==
    /\ simulcast_result.op = "GetScreenshareLayers"
    /\ simulcast_result.result.status = "returned"

\* C34: GetScreenshareLayers returns exactly min(max_layers, 2) layers, of
\* which only layer 0 has a bitrate_priority; when it returns 2 layers,
\* layers[1].target_bitrate_bps = layers[1].max_bitrate_bps and, with no field
\* trial and no experimental screenshare setting active, for every resolution
\* and either value of temporal_layers_supported
\* layers[1].min_bitrate_bps <= layers[1].max_bitrate_bps.
C34_ScreenshareLayers ==
    AfterGetScreenshareLayers =>
        LET layers == simulcast_result.result.layers
            n == Min(simulcast_args.layer_count, 2)
        IN  /\ DOMAIN layers = 0 .. n - 1
            /\ layers[0].bitrate_priority
                   = {simulcast_result.bitrate_priority}
            /\ \A i \in 1 .. n - 1 : layers[i].bitrate_priority = {}
            /\ n = 2 =>
                   /\ layers[1].target_bitrate_bps = layers[1].max_bitrate_bps
                   /\ simulcast_result.field_trials = NoFieldTrials =>
                          layers[1].min_bitrate_bps
                              <= layers[1].max_bitrate_bps

\* Two layers for a 320x180 frame with temporal layers, whose maximum
\* bitrate of 200 kbps for the resolution is below the upper layer's minimum:
\* the upper layer's maximum is its minimum.
C34_Witness ==
    /\ AfterGetScreenshareLayers
    /\ simulcast_result.field_trials = NoFieldTrials
    /\ simulcast_args.width = 320
    /\ simulcast_args.height = 180
    /\ simulcast_args.temporal_layers_supported
    /\ DOMAIN simulcast_result.result.layers = {0, 1}
    /\ simulcast_result.result.layers[1].min_bitrate_bps
           = kScreenshareHighStreamMinBitrateBps
    /\ simulcast_result.result.layers[1].max_bitrate_bps
           = kScreenshareHighStreamMinBitrateBps


\* the sum of f[i] over the indices i of S
RECURSIVE SumOver(_, _)
SumOver(S, f) ==
    IF S = {} THEN 0
    ELSE LET i == CHOOSE i \in S : TRUE
         IN  f[i] + SumOver(S \ {i}, f)

\* the target bitrates of all layers but the last plus the maximum bitrate
\* of the last; 0 for no layers
TargetsAndLastMax(layers) ==
    LET n == Cardinality(DOMAIN layers)
    IN  IF n = 0 THEN 0
        ELSE SumOver(0 .. n - 2,
                     [i \in 0 .. n - 2 |-> layers[i].target_bitrate_bps])
             + layers[n - 1].max_bitrate_bps

\* C35: GetTotalMaxBitrateBps is the sum of the target_bitrate_bps of all
\* layers but the last plus the max_bitrate_bps of the last, 0 for no
\* layers; BoostMaxSimulcastLayer(m, layers) changes nothing but the last
\* layer's max_bitrate_bps, never lowers it, leaves
\* GetTotalMaxBitrateBps(layers) = max(m, total before), and does nothing to
\* an empty vector.
C35_TotalAndBoost ==
    /\ simulcast_result.op = "GetTotalMaxBitrateBps" =>
           simulcast_result.result = TargetsAndLastMax(simulcast_args.layers)
    /\ simulcast_result.op = "BoostMaxSimulcastLayer" =>
           LET before == simulcast_args.layers
               after == simulcast_result.layers
               n == Cardinality(DOMAIN before)
           IN  /\ DOMAIN after = DOMAIN before
               /\ \A i \in 0 .. n - 2 : after[i] = before[i]
               /\ n = 0 => after = before
               /\ n > 0 =>
                      /\ [after[n - 1] EXCEPT !.max_bitrate_bps =
                              before[n - 1].max_bitrate_bps] = before[n - 1]
                      /\ after[n - 1].max_bitrate_bps
                             >= before[n - 1].max_bitrate_bps
                      /\ TargetsAndLastMax(after) =
                             Max(simulcast_args.max_bitrate_bps,
                                 TargetsAndLastMax(before))

\* Three layers whose lower layers have targets other than their maxima,
\* boosted to a bitrate above their total.
C35_Witness ==
    /\ simulcast_result.op = "BoostMaxSimulcastLayer"
    /\ Cardinality(DOMAIN simulcast_args.layers) = 3
    /\ \A i \in 0 .. 1 : simulcast_args.layers[i].target_bitrate_bps
                             # simulcast_args.layers[i].max_bitrate_bps
    /\ simulcast_args.layers[0].target_bitrate_bps > 0
    /\ simulcast_args.max_bitrate_bps = 2500000
    /\ simulcast_result.layers[2].max_bitrate_bps
           > simulcast_args.layers[2].max_bitrate_bps


----------------------------------------------------------------------------
(* C36: the DataReader stays within its input and FuzzOneInput returns *)

ReaderWithinInput ==
    /\ 0 <= reader.offset_
    /\ reader.offset_ <= reader.size_
    /\ fuzz.read_end <= reader.size_

IterationAdvances ==
    (fuzz.pc = "while" /\ fuzz'.pc = "while") =>
        reader'.offset_ > reader.offset_

\* C36: after any sequence of CopyTo and GetNum calls
\* 0 <= offset_ <= size_ and no memcpy has read past the input; every
\* iteration of the loop of FuzzOneInput strictly increases offset_; and
\* FuzzOneInput returns for every input of at most 20000 bytes.
C36_ReaderBounded ==
    /\ []ReaderWithinInput
    /\ [][IterationAdvances]_vars
    /\ (fuzz.pc = "FuzzOneInput" /\ fuzz.size <= kMaxFuzzInputSize)
           ~> (fuzz.pc = "returned")

\* FuzzOneInput has returned from an input of the largest accepted size.
C36_Witness ==
    /\ fuzz.pc = "returned"
    /\ fuzz.size = kMaxFuzzInputSize
    /\ reader.offset_ = reader.size_
    /\ reader.size_ = kMaxFuzzInputSize

====
